---------------------------- MODULE Spec2Model ----------------------------
(***************************************************************************)
(* Model of django_cloud_deploy/cli/prompt_manager.py: the validators, the *)
(* prompt primitives, the parameter prompters and RootPrompt.              *)
(*                                                                         *)
(* Strings are sequences of character codes (ASCII, plus a few non-ASCII   *)
(* code points), so that the validators, lower(), replace(), re.sub() and  *)
(* slicing are computed on characters.  Values that are not strings (None, *)
(* True, the ProjectCreationMode enum, credential handles) are one-element *)
(* sequences holding a negative number, which is no character code.        *)
(***************************************************************************)
EXTENDS Integers, Sequences, FiniteSets, TLC

-----------------------------------------------------------------------------
(* Non-string Python values *)

None == <<-1>>
PyTrue == <<-2>>
PyFalse == <<-3>>
MUST_EXIST == <<-4>>
CredsDefault == <<-10>>   \* result of AuthClient.get_default_credentials()
CredsNew == <<-11>>       \* result of AuthClient.create_default_credentials()

-----------------------------------------------------------------------------
(* Characters *)

IsLowerAscii(c) == c \in 97..122          \* string.ascii_lowercase
IsUpperAscii(c) == c \in 65..90
IsDigit(c) == c \in 48..57
\* str.isalpha / str.isalnum / str.isidentifier also accept non-ASCII
\* letters; 233 and 201 (e-acute, lower and upper case) stand for them.
IsLetter(c) == IsLowerAscii(c) \/ IsUpperAscii(c) \/ c \in {201, 233}
\* str.isnumeric accepts digits and characters such as superscript two
\* (178), for which int() raises ValueError.
IsNumericChar(c) == IsDigit(c) \/ c = 178

LowerChar(c) == IF IsUpperAscii(c) THEN c + 32 ELSE IF c = 201 THEN 233 ELSE c

Lower(s) == [i \in 1..Len(s) |-> LowerChar(s[i])]

\* s.replace(' ', '-')
ReplaceSpace(s) == [i \in 1..Len(s) |-> IF s[i] = 32 THEN 45 ELSE s[i]]

\* character class [a-z0-9\-]
IsIdChar(c) == IsLowerAscii(c) \/ IsDigit(c) \/ c = 45

\* re.sub(r'[^a-z0-9\-]', '', s)
StripNonId(s) == SelectSeq(s, IsIdChar)

\* s[0:n]
Prefix(s, n) == SubSeq(s, 1, IF Len(s) < n THEN Len(s) ELSE n)

Chars(s) == {s[i] : i \in 1..Len(s)}

\* str(n) for n >= 0
RECURSIVE Str(_)
Str(n) == IF n < 10 THEN <<48 + n>> ELSE Append(Str(n \div 10), 48 + (n % 10))

\* int(s) for a string of ASCII digits
RECURSIVE ParseInt(_)
ParseInt(s) == IF Len(s) = 0 THEN 0
          ELSE 10 * ParseInt(SubSeq(s, 1, Len(s) - 1)) + (s[Len(s)] - 48)

\* Python truthiness of an Optional[str]
Truthy(v) == v # None /\ v # <<>> /\ v # PyFalse

-----------------------------------------------------------------------------
(* String literals of the source *)

S_django == <<100, 106, 97, 110, 103, 111>>
S_djangoDash == <<100, 106, 97, 110, 103, 111, 45>>
S_DjangoProject == <<68, 106, 97, 110, 103, 111, 32, 80, 114, 111, 106, 101, 99, 116>>
S_mysite == <<109, 121, 115, 105, 116, 101>>
S_home == <<104, 111, 109, 101>>
S_admin == <<97, 100, 109, 105, 110>>
S_testEmail == <<116, 101, 115, 116, 64, 101, 120, 97, 109, 112, 108, 101, 46, 99, 111, 109>>
S_djangoProjectDir == <<100, 106, 97, 110, 103, 111, 45, 112, 114, 111, 106, 101, 99, 116>>
S_Y == <<89>>
S_n == <<110>>
S_y == <<121>>

-----------------------------------------------------------------------------
(* Validators.  Each returns "ok" or the identifier of the ValueError it   *)
(* raises.                                                                 *)

\* string.ascii_letters + string.digits + string.punctuation
allowed_characters == 33..126

\* _password_validate asking for the six characters its message speaks of
_password_validate_six(s) ==
    IF Len(s) < 6 THEN "password_too_short"
    ELSE IF allowed_characters \subseteq Chars(s) THEN "password_invalid_character"
    ELSE "ok"

_password_validate(s) ==
    IF Len(s) < 5 THEN "password_too_short"
    ELSE IF allowed_characters \subseteq Chars(s) THEN "password_invalid_character"
    ELSE "ok"

\* re.match(r'[a-z][a-z0-9\-]{5,29}', s): a match of a prefix of s
MatchProjectId(s) ==
    /\ Len(s) >= 6
    /\ IsLowerAscii(s[1])
    /\ \A i \in 2..6 : IsIdChar(s[i])

GoogleNewProjectId_validate(s) ==
    IF ~MatchProjectId(s) THEN "invalid_project_id" ELSE "ok"

\* re.match(r'[^@]+@[^@]+\.[^@]+', s): a match of a prefix of s.  a is the
\* position of the '@', d the position of the '.' the match uses.
MatchEmail(s) ==
    \E a \in 2..Len(s) : \E d \in (a + 2)..(Len(s) - 1) :
        /\ s[a] = 64
        /\ \A i \in 1..(a - 1) : s[i] # 64
        /\ \A i \in (a + 1)..(d - 1) : s[i] # 64
        /\ s[d] = 46
        /\ s[d + 1] # 64

\* str.isidentifier()
IsIdentifier(s) ==
    /\ Len(s) >= 1
    /\ IsLetter(s[1]) \/ s[1] = 95
    /\ \A i \in 2..Len(s) : IsLetter(s[i]) \/ IsDigit(s[i]) \/ s[i] = 95

\* str.isalnum()
IsAlnum(s) == Len(s) >= 1 /\ \A i \in 1..Len(s) : IsLetter(s[i]) \/ IsDigit(s[i])

\* str.isnumeric()
IsNumeric(s) == Len(s) >= 1 /\ \A i \in 1..Len(s) : IsNumericChar(s[i])

DjangoName_validate(s) ==
    IF ~IsIdentifier(s) THEN "invalid_django_name" ELSE "ok"

DjangoSuperuserLogin_validate(s) ==
    IF ~IsAlnum(s) THEN "invalid_superuser_login" ELSE "ok"

DjangoSuperuserEmail_validate(s) ==
    IF ~MatchEmail(s) THEN "invalid_superuser_email" ELSE "ok"

_binary_validate(s) ==
    IF Lower(s) \notin {S_y, S_n} THEN "respond_y_or_n" ELSE "ok"

_multiple_choice_validate(s, default, len_options) ==
    IF default # None /\ s = <<>> THEN "ok"
    ELSE IF ~IsNumeric(s) THEN "enter_numeric_value"
    ELSE IF \E i \in 1..Len(s) : ~IsDigit(s[i]) THEN "invalid_literal_for_int"
    ELSE IF 1 <= ParseInt(s) /\ ParseInt(s) <= len_options + 1 THEN "ok"
    ELSE "value_not_in_range"

-----------------------------------------------------------------------------
(* The external collaborators (cloudlib.project, the file system), fixed   *)
(* for a session.                                                          *)

P_shop01 == <<115, 104, 111, 112, 45, 48, 49>>      \* "shop-01"
N_Shop == <<83, 104, 111, 112>>                     \* "Shop"

\* the projects the project service knows: id and display name
Projects == { [projectId |-> P_shop01, name |-> N_Shop] }

\* ProjectClient.project_exists(project_id)
project_exists(s) == \E p \in Projects : p.projectId = s

\* ProjectClient.get_project(project_id)['name']
get_project_name(project_id) ==
    (CHOOSE p \in Projects : p.projectId = project_id).name

D_home == <<47, 104, 111, 109, 101, 47, 117>>       \* "/home/u"
D_srvApp == <<47, 115, 114, 118, 47, 97, 112, 112>> \* "/srv/app"

\* os.path.expanduser('~')
home_dir == D_home

\* os.path.join(a, b)
path_join(a, b) ==
    IF Len(b) > 0 /\ b[1] = 47 THEN b
    ELSE IF Len(a) = 0 \/ a[Len(a)] = 47 THEN a \o b
    ELSE a \o <<47>> \o b

\* os.path.exists(directory): the directories present on the file system
path_exists(directory) == directory \in {D_srvApp, path_join(D_home, S_djangoProjectDir)}

-----------------------------------------------------------------------------
(* Validators that consult the project service *)

\* GoogleExistingProjectId._validate without the call of project_exists
GoogleExistingProjectId_validate_pattern(s) ==
    IF ~MatchProjectId(s) THEN "invalid_project_id" ELSE "ok"

GoogleExistingProjectId_validate(s) ==
    IF ~MatchProjectId(s) THEN "invalid_project_id"
    ELSE IF ~project_exists(s) THEN "project_does_not_exist"
    ELSE "ok"

\* GoogleProjectName._is_new_project
_is_new_project(project_creation_mode) == project_creation_mode # MUST_EXIST

\* the helper returned by GoogleProjectName._validate(project_id, mode)
\* GoogleProjectName._validate without the comparison with the name on record
GoogleProjectName_validate_length(project_id, project_creation_mode, s) ==
    IF ~(4 <= Len(s) /\ Len(s) <= 30) THEN "invalid_project_name" ELSE "ok"

GoogleProjectName_validate(project_id, project_creation_mode, s) ==
    IF ~(4 <= Len(s) /\ Len(s) <= 30) THEN "invalid_project_name"
    ELSE IF _is_new_project(project_creation_mode) THEN "ok"
    ELSE IF project_id = None THEN "project_id_must_be_set"
    ELSE IF get_project_name(project_id) # s THEN "wrong_project_name"
    ELSE "ok"

\* TemplatePrompt._validate: the body is "pass"
TemplatePrompt_validate(s) == "ok"

\* A validator is passed around as a record naming the bound method; Validate
\* calls it.
Validate(v, s) ==
    CASE v.kind = "none" -> "ok"                   \* lambda x: None
      [] v.kind = "template" -> TemplatePrompt_validate(s)
      [] v.kind = "password" -> _password_validate(s)
      [] v.kind = "new_project_id" -> GoogleNewProjectId_validate(s)
      [] v.kind = "existing_project_id" -> GoogleExistingProjectId_validate(s)
      [] v.kind = "project_name" ->
            GoogleProjectName_validate(v.project_id, v.project_creation_mode, s)
      [] v.kind = "django_name" -> DjangoName_validate(s)
      [] v.kind = "superuser_login" -> DjangoSuperuserLogin_validate(s)
      [] v.kind = "superuser_email" -> DjangoSuperuserEmail_validate(s)

-----------------------------------------------------------------------------
(* Console.  A prompt primitive is computed on the stream inp of the lines *)
(* the user types (console.ask and console.getpass read the next line) and *)
(* yields the value it returns, the console events it causes, the number   *)
(* of lines it has read, and whether it returned ("ret"), raised ("raise") *)
(* or is still waiting for a line the stream does not hold ("wait").       *)

\* a console event: op is ask, getpass, tell, error or browser; msg names
\* the message, step is the step number it shows (0: none) and val the
\* value formatted into it (None: none)
Ev(op, msg, step, val) == [op |-> op, msg |-> msg, step |-> step, val |-> val]

\* the ValueError messages that format the rejected value into their text
MessagesWithValue ==
    {"invalid_project_id", "project_does_not_exist", "invalid_project_name",
     "invalid_django_name", "invalid_superuser_login", "invalid_superuser_email",
     "invalid_literal_for_int"}

\* console.error(e) for the ValueError r raised on the value s
ErrEv(r, s) == Ev("error", r, 0, IF r \in MessagesWithValue THEN s ELSE None)

Res(val, io, used, st) == [val |-> val, io |-> io, used |-> used, st |-> st]

\* _ask_prompt taking the default without validating it
RECURSIVE _ask_prompt_loop_default_unchecked(_, _, _, _, _, _)
_ask_prompt_loop_default_unchecked(question, validate, default, inp, io, used) ==
    IF used >= Len(inp) THEN Res(None, Append(io, question), used, "wait")
    ELSE LET typed == inp[used + 1]
             defaulted == Truthy(default) /\ typed = <<>>
             answer == IF defaulted THEN default ELSE typed
             r == IF defaulted THEN "ok" ELSE Validate(validate, answer)
         IN IF r = "ok" THEN Res(answer, Append(io, question), used + 1, "ret")
            ELSE _ask_prompt_loop_default_unchecked(question, validate, default, inp,
                     io \o <<question, ErrEv(r, answer)>>, used + 1)

RECURSIVE _ask_prompt_loop(_, _, _, _, _, _)
_ask_prompt_loop(question, validate, default, inp, io, used) ==
    IF used >= Len(inp) THEN Res(None, Append(io, question), used, "wait")
    ELSE LET typed == inp[used + 1]
             answer == IF Truthy(default) /\ typed = <<>> THEN default ELSE typed
             r == Validate(validate, answer)
         IN IF r = "ok" THEN Res(answer, Append(io, question), used + 1, "ret")
            ELSE _ask_prompt_loop(question, validate, default, inp,
                     io \o <<question, ErrEv(r, answer)>>, used + 1)

_ask_prompt(question, validate, default, inp) ==
    _ask_prompt_loop(question, validate, default, inp, <<>>, 0)

\* '{}. {}'.format(str(i), opt) for i, opt in enumerate(options, 1), joined
\* with '\n'
RECURSIVE options_joined(_, _)
options_joined(options, n) ==
    IF n = 0 THEN <<>>
    ELSE (IF n = 1 THEN <<>> ELSE options_joined(options, n - 1) \o <<10>>)
         \o Str(n) \o <<46, 32>> \o options[n]

RECURSIVE _multiple_choice_loop(_, _, _, _, _, _)
_multiple_choice_loop(question, len_options, default, inp, io, used) ==
    LET answer == inp[used]
        r == _multiple_choice_validate(answer, default, len_options)
    IN IF r = "ok" THEN Res(answer, io, used, "ret")
       ELSE IF used >= Len(inp)
            THEN Res(None, io \o <<ErrEv(r, answer), question>>, used, "wait")
       ELSE _multiple_choice_loop(question, len_options, default, inp,
                io \o <<ErrEv(r, answer), question>>, used + 1)

\* len(options) as line 71 of the source evaluates it: options has been
\* rebound to the joined menu text at line 66
_multiple_choice_len(options) == Len(options_joined(options, Len(options)))

\* the first ask shows question.format(options), the later ones question
_multiple_choice_prompt(question, options, default, inp) ==
    LET first == [question EXCEPT !.val = options_joined(options, Len(options))]
    IN IF Len(inp) = 0 THEN Res(None, <<first>>, 0, "wait")
       ELSE _multiple_choice_loop(question, _multiple_choice_len(options), default,
                                  inp, <<first>>, 1)

\* _binary_prompt validating every answer, typed or defaulted
RECURSIVE _binary_prompt_loop_all_validated(_, _, _, _, _)
_binary_prompt_loop_all_validated(question, default, inp, io, used) ==
    IF used >= Len(inp) THEN Res(None, Append(io, question), used, "wait")
    ELSE LET typed == inp[used + 1]
             answer == IF Truthy(default) /\ typed = <<>> THEN default ELSE typed
             r == _binary_validate(answer)
         IN IF r = "ok" THEN Res(answer, Append(io, question), used + 1, "ret")
            ELSE _binary_prompt_loop_all_validated(question, default, inp,
                     io \o <<question, ErrEv(r, answer)>>, used + 1)

RECURSIVE _binary_prompt_loop(_, _, _, _, _)
_binary_prompt_loop(question, default, inp, io, used) ==
    IF used >= Len(inp) THEN Res(None, Append(io, question), used, "wait")
    ELSE LET typed == inp[used + 1]
             defaulted == Truthy(default) /\ typed = <<>>
             answer == IF defaulted THEN default ELSE typed
             r == IF defaulted THEN _binary_validate(answer) ELSE "ok"
         IN IF r = "ok" THEN Res(answer, Append(io, question), used + 1, "ret")
            ELSE _binary_prompt_loop(question, default, inp,
                     io \o <<question, ErrEv(r, answer)>>, used + 1)

_binary_prompt(question, default, inp) ==
    _binary_prompt_loop(question, default, inp, <<>>, 0)

GetPass1 == Ev("getpass", "Password: ", 0, None)
GetPass2 == Ev("getpass", "Password (again): ", 0, None)

\* _password_prompt without the comparison of the two entries
RECURSIVE _password_prompt_loop_nocompare(_, _, _)
_password_prompt_loop_nocompare(inp, io, used) ==
    IF used >= Len(inp) THEN Res(None, Append(io, GetPass1), used, "wait")
    ELSE LET password1 == inp[used + 1]
             r == _password_validate(password1)
         IN IF r # "ok"
            THEN _password_prompt_loop_nocompare(inp,
                     io \o <<GetPass1, ErrEv(r, password1)>>, used + 1)
            ELSE IF used + 1 >= Len(inp)
            THEN Res(None, io \o <<GetPass1, GetPass2>>, used + 1, "wait")
            ELSE Res(password1, io \o <<GetPass1, GetPass2>>, used + 2, "ret")

RECURSIVE _password_prompt_loop(_, _, _)
_password_prompt_loop(inp, io, used) ==
    IF used >= Len(inp) THEN Res(None, Append(io, GetPass1), used, "wait")
    ELSE LET password1 == inp[used + 1]
             r == _password_validate(password1)
         IN IF r # "ok"
            THEN _password_prompt_loop(inp,
                     io \o <<GetPass1, ErrEv(r, password1)>>, used + 1)
            ELSE IF used + 1 >= Len(inp)
            THEN Res(None, io \o <<GetPass1, GetPass2>>, used + 1, "wait")
            ELSE LET password2 == inp[used + 2]
                 IN IF password1 # password2
                    THEN _password_prompt_loop(inp,
                             io \o <<GetPass1, GetPass2,
                                     Ev("error", "passwords_do_not_match", 0, None)>>,
                             used + 2)
                    ELSE Res(password1, io \o <<GetPass1, GetPass2>>, used + 2, "ret")

_password_prompt(question, inp) ==
    _password_prompt_loop(inp, <<Ev("tell", question.msg, question.step, question.val)>>, 0)

-----------------------------------------------------------------------------
(* The answer mapping: a function from the keys it holds to their values.  *)
(* args.get(k, None) does not tell an absent key from a key holding None.  *)

Get(args, k) == IF k \in DOMAIN args THEN args[k] ELSE None

\* a mapping with k set to v
Put(args, k, v) == [x \in (DOMAIN args) \cup {k} |-> IF x = k THEN v ELSE args[x]]

\* Mapping objects: a dict has an identity as well as a content. Within one
\* call, obj is "handed" for the object the caller passed and "copy" for an
\* object made during the call.
Handed(args) == [obj |-> "handed", map |-> args]

\* copy.deepcopy aliasing its argument
deepcopy_alias(o) == o

\* copy.deepcopy(o): a new object with equal content
deepcopy(o) == [obj |-> "copy", map |-> o.map]

\* o[k] = v, in place
SetItem(o, k, v) == [o EXCEPT !.map = Put(o.map, k, v)]

\* the result of a prompter: the mapping it returns, its console events, the
\* number of lines read and how it ended ("ret", "raise", "wait", or "poll":
\* inside the polling loop of _get_new_billing_account, whose argument
\* existing_billing_accounts is then in poll)
\* and, for the frame of the call: handed is the mapping object the caller
\* passed as the caller finds it after the call, fresh tells that the
\* returned mapping is another object than that one
PRes(args, new_args, io, used, st) ==
    [args |-> new_args.map, io |-> io, used |-> used, st |-> st, poll |-> <<>>,
     handed |-> IF new_args.obj = "handed" THEN new_args.map ELSE args,
     fresh |-> new_args.obj # "handed"]

\* the events of a prompter, marked with the PARAMETER of its class
Tag(who, io) ==
    [i \in 1..Len(io) |-> [op |-> io[i].op, msg |-> io[i].msg, step |-> io[i].step,
                           val |-> io[i].val, who |-> who]]

\* a call of an external service, recorded among the console events with
\* its answer (for get_billing_account: the billingAccountName, or False
\* when billingEnabled is not set; for list_billing_accounts: not recorded)
Svc(name, answer) == Ev("svc", name, 0, answer)

\* _is_valid_passed_arg without the "return False" of its except branch
_is_valid_passed_arg_noreturn(PARAMETER, step, value, validate) ==
    IF value = None THEN [ok |-> FALSE, io |-> <<>>]
    ELSE LET r == Validate(validate, value)
         IN [ok |-> TRUE,
             io |-> (IF r # "ok" THEN <<ErrEv(r, value)>> ELSE <<>>)
                    \o <<Ev("tell", PARAMETER, step, value)>>]

_is_valid_passed_arg(PARAMETER, step, value, validate) ==
    IF value = None THEN [ok |-> FALSE, io |-> <<>>]
    ELSE LET r == Validate(validate, value)
         IN IF r # "ok" THEN [ok |-> FALSE, io |-> <<ErrEv(r, value)>>]
            ELSE [ok |-> TRUE, io |-> <<Ev("tell", PARAMETER, step, value)>>]

\* AfterPassedArg returning a fresh mapping that holds the new key alone,
\* not a copy of args
AfterPassedArg_nocopy(PARAMETER, step, args, validate, prim) ==
    LET passed == _is_valid_passed_arg(PARAMETER, step, Get(args, PARAMETER), validate)
        new_args_ == deepcopy(Handed(args))
    IN IF passed.ok THEN PRes(args, new_args_, Tag(PARAMETER, passed.io), 0, "ret")
       ELSE [PRes(args,
                  IF prim.st = "ret"
                  THEN SetItem([obj |-> "copy", map |-> <<>>], PARAMETER, prim.val)
                  ELSE new_args_,
                  Tag(PARAMETER, passed.io \o prim.io), prim.used, prim.st)
               EXCEPT !.poll = IF prim.st = "poll" THEN prim.val ELSE <<>>]

\* the common shape of the prompters: the passed value is checked first, and
\* the primitive result prim is used only when it is not valid
AfterPassedArg(PARAMETER, step, args, validate, prim) ==
    LET passed == _is_valid_passed_arg(PARAMETER, step, Get(args, PARAMETER), validate)
        new_args_ == deepcopy(Handed(args))
    IN IF passed.ok THEN PRes(args, new_args_, Tag(PARAMETER, passed.io), 0, "ret")
       ELSE [PRes(args,
                  IF prim.st = "ret" THEN SetItem(new_args_, PARAMETER, prim.val)
                  ELSE new_args_,
                  Tag(PARAMETER, passed.io \o prim.io), prim.used, prim.st)
               EXCEPT !.poll = IF prim.st = "poll" THEN prim.val ELSE <<>>]

\* StringTemplatePrompt.prompt for a subclass cls: PARAMETER, DEFAULT_VALUE
\* and the validator of the subclass
StringTemplatePrompt_prompt(cls, step, args, inp) ==
    AfterPassedArg(cls.PARAMETER, step, args, cls.validate,
        _ask_prompt(Ev("ask", "Enter a value for", step, cls.DEFAULT_VALUE),
                    cls.validate, cls.DEFAULT_VALUE, inp))

DjangoProjectNamePrompt ==
    [PARAMETER |-> "django_project_name", DEFAULT_VALUE |-> S_mysite,
     validate |-> [kind |-> "django_name"]]

DjangoAppNamePrompt ==
    [PARAMETER |-> "django_app_name", DEFAULT_VALUE |-> S_home,
     validate |-> [kind |-> "django_name"]]

DjangoSuperuserLoginPrompt ==
    [PARAMETER |-> "django_superuser_login", DEFAULT_VALUE |-> S_admin,
     validate |-> [kind |-> "superuser_login"]]

DjangoSuperuserEmailPrompt ==
    [PARAMETER |-> "django_superuser_email", DEFAULT_VALUE |-> S_testEmail,
     validate |-> [kind |-> "superuser_email"]]

(* GoogleProjectName *)

GoogleProjectName_validator(args) ==
    [kind |-> "project_name", project_id |-> Get(args, "project_id"),
     project_creation_mode |-> Get(args, "project_creation_mode")]

_handle_new_project(step, args, inp) ==
    _ask_prompt(Ev("ask", "Enter a Google Cloud Platform project name", step,
                   S_DjangoProject),
                GoogleProjectName_validator(args), S_DjangoProject, inp)

_handle_existing_project(step, args) ==
    IF "project_id" \notin DOMAIN args
    THEN Res(None, <<>>, 0, "raise")            \* AssertionError
    ELSE IF ~project_exists(args["project_id"])  \* get_project fails
    THEN Res(None, <<Svc("get_project", args["project_id"])>>, 0, "raise")
    ELSE LET project_name == get_project_name(args["project_id"])
         IN Res(project_name, <<Ev("tell", "project_name", step, project_name)>>,
                0, "ret")

GoogleProjectName_prompt(step, args, inp) ==
    AfterPassedArg("project_name", step, args, GoogleProjectName_validator(args),
        IF _is_new_project(Get(args, "project_creation_mode"))
        THEN _handle_new_project(step, args, inp)
        ELSE _handle_existing_project(step, args))

(* GoogleNewProjectId, GoogleExistingProjectId, GoogleProjectId *)

\* rnd is the value random.randint(100000, 1000000) returns
_generate_default_project_id(project_name, rnd) ==
    LET lowered == Lower(IF Truthy(project_name) THEN project_name ELSE S_django)
        dashed == ReplaceSpace(lowered)
        prefixed == IF ~IsLowerAscii(dashed[1]) THEN S_djangoDash \o dashed
                    ELSE dashed
        stripped == StripNonId(prefixed)
    IN Prefix(stripped, 30 - 6 - 1) \o <<45>> \o Str(rnd)

GoogleNewProjectId_prompt(step, args, inp, rnd) ==
    LET default_answer == _generate_default_project_id(Get(args, "project_name"), rnd)
    IN AfterPassedArg("project_id", step, args, [kind |-> "new_project_id"],
           _ask_prompt(Ev("ask", "Enter a Google Cloud Platform Project ID", step,
                          default_answer),
                       [kind |-> "new_project_id"], default_answer, inp))

GoogleExistingProjectId_prompt(step, args, inp) ==
    AfterPassedArg("project_id", step, args, [kind |-> "existing_project_id"],
        _ask_prompt(Ev("ask", "Enter the existing Google Cloud Platform Project ID",
                       step, None),
                    [kind |-> "existing_project_id"], None, inp))

GoogleProjectId_prompt(step, args, inp, rnd) ==
    IF Truthy(Get(args, "use_existing_project"))
    THEN GoogleExistingProjectId_prompt(step, args, inp)
    ELSE GoogleNewProjectId_prompt(step, args, inp, rnd)

(* CredentialsPrompt *)

\* active_account is what AuthClient.get_active_account() returns
CredentialsPrompt_prompt(step, args, inp, active_account) ==
    LET b == _binary_prompt(Ev("ask", "You have logged in with account", 0,
                               active_account), S_Y, inp)
        create_new_credentials ==
            IF Truthy(active_account) THEN Lower(b.val) = S_n ELSE TRUE
        pre == <<Ev("tell", "you must allow Django Deploy to access your Google account",
                    step, None),
                 Svc("get_active_account", active_account)>>
    IN AfterPassedArg("credentials", step, args, [kind |-> "template"],
           IF b.st # "ret" THEN Res(None, pre \o b.io, b.used, b.st)
           ELSE IF create_new_credentials
           THEN Res(CredsNew, pre \o b.io \o <<Svc("create_default_credentials", CredsNew)>>,
                    b.used, "ret")
           ELSE Res(CredsDefault, pre \o b.io \o <<Svc("get_default_credentials", CredsDefault)>>,
                    b.used, "ret"))

(* PostgresPasswordPrompt, DjangoSuperuserPasswordPrompt *)

PostgresPasswordPrompt_prompt(step, args, inp) ==
    AfterPassedArg("database_password", step, args, [kind |-> "password"],
        _password_prompt(Ev("tell", "Enter a password for the default database user",
                            step, None), inp))

DjangoSuperuserPasswordPrompt_prompt(step, args, inp) ==
    AfterPassedArg("django_superuser_password", step, args, [kind |-> "password"],
        IF "django_superuser_login" \notin DOMAIN args
        THEN Res(None, <<>>, 0, "raise")        \* KeyError
        ELSE _password_prompt(Ev("tell", "Enter a password for the Django superuser",
                                 step, args["django_superuser_login"]), inp))

(* DjangoFilesystemPath *)

_ask_to_replace(directory, inp) ==
    _ask_prompt(Ev("ask", "The directory already exists, replace it's contents", 0,
                   directory),
                [kind |-> "none"], S_n, inp)

_ask_for_directory(step, args, inp) ==
    LET default_dir ==
            path_join(home_dir,
                ReplaceSpace(Lower(IF "project_name" \in DOMAIN args
                                   THEN args["project_name"]
                                   ELSE S_djangoProjectDir)))
    IN _ask_prompt(Ev("ask", "Enter a new directory path to store project source",
                      step, default_dir),
                   [kind |-> "none"], default_dir, inp)

\* the while loop of the source ends in an unconditional break: its body
\* runs once
DjangoFilesystemPath_prompt(step, args, inp) ==
    LET new_args_ == deepcopy(Handed(args))
        d == _ask_for_directory(step, args, inp)
        rest == SubSeq(inp, d.used + 1, Len(inp))
        replace == _ask_to_replace(d.val, rest)
    IN IF d.st # "ret"
       THEN PRes(args, new_args_, Tag("django_directory_path", d.io), d.used, d.st)
       ELSE IF path_exists(d.val)
       THEN PRes(args,
                 IF replace.st = "ret"
                 THEN SetItem(new_args_, "django_directory_path", d.val)
                 ELSE new_args_,
                 Tag("django_directory_path", d.io \o replace.io),
                 d.used + replace.used, replace.st)
       ELSE PRes(args, SetItem(new_args_, "django_directory_path", d.val),
                 Tag("django_directory_path", d.io), d.used, "ret")

(* BillingPrompt *)

_does_project_exist(project_creation_mode) == project_creation_mode = MUST_EXIST

Names(billing_accounts) == {billing_accounts[i].name : i \in 1..Len(billing_accounts)}

\* one pass of the polling loop of _get_new_billing_account on the answer
\* billing_accounts of list_billing_accounts: diff when the number of
\* accounts has changed (IndexError when diff is empty), a sleep otherwise
_get_new_billing_account_pass(existing_billing_accounts, billing_accounts) ==
    LET diff == Names(billing_accounts) \ Names(existing_billing_accounts)
    IN IF Len(existing_billing_accounts) # Len(billing_accounts)
       THEN [st |-> IF diff = {} THEN "raise" ELSE "ret", diff |-> diff]
       ELSE [st |-> "sleep", diff |-> {}]

\* _get_new_billing_account up to the first poll: the browser is opened and
\* the prompter enters its polling loop
_get_new_billing_account_open(existing, io, used) ==
    Res(existing,
        io \o <<Ev("browser", "https://console.cloud.google.com/billing/create", 0, None),
                Ev("tell", "Waiting for billing account to be created.", 0, None)>>,
        used, "poll")

_handle_existing_billing_accounts(billing_accounts, inp, io) ==
    LET options == [i \in 1..Len(billing_accounts) |-> billing_accounts[i].displayName]
        c == _multiple_choice_prompt(
                 Ev("ask", "You have the following existing billing accounts", 0, None),
                 options, <<>>, inp)
    IN IF c.st # "ret" THEN Res(None, io \o c.io, c.used, c.st)
       ELSE IF c.val = <<>> THEN _get_new_billing_account_open(billing_accounts, io \o c.io, c.used)
       ELSE IF ParseInt(c.val) > Len(billing_accounts)
       THEN Res(None, io \o c.io, c.used, "raise")       \* IndexError
       ELSE Res(billing_accounts[ParseInt(c.val)].name, io \o c.io, c.used, "ret")

\* the part of BillingPrompt.prompt from the listing of the accounts on
BillingPrompt_select(step, billing_accounts, inp, io0) ==
    LET io == io0 \o <<Svc("list_billing_accounts", None),
                       Ev("tell", "you must enable billing for your Google Cloud Project",
                          step, None)>>
        none == io \o <<Ev("tell", "You do not have existing billing accounts.", 0, None),
                        Ev("ask", "Press [Enter] to create a new billing account.", 0, None)>>
    IN IF Len(billing_accounts) > 0
       THEN _handle_existing_billing_accounts(billing_accounts, inp, io)
       ELSE IF Len(inp) = 0 THEN Res(None, none, 0, "wait")
       ELSE _get_new_billing_account_open(billing_accounts, none, 1)

\* _has_existing_billing_account returning None whatever the service answers
_has_existing_billing_account_never(step, billing_info) ==
    Res(None,
        <<Svc("get_billing_account",
              IF billing_info.billingEnabled THEN billing_info.billingAccountName
              ELSE PyFalse)>>,
        0, "ret")

\* billing_info is what BillingClient.get_billing_account(project_id) returns
_has_existing_billing_account(step, billing_info) ==
    IF ~billing_info.billingEnabled
    THEN Res(None, <<Svc("get_billing_account", PyFalse)>>, 0, "ret")
    ELSE Res(billing_info.billingAccountName,
             <<Svc("get_billing_account", billing_info.billingAccountName),
               Ev("tell", "Billing is already enabled on this project.", step, None)>>,
             0, "ret")

\* billing_accounts is what list_billing_accounts(only_open_accounts=True)
\* returns
BillingPrompt_prompt(step, args, inp, billing_info, billing_accounts) ==
    AfterPassedArg("billing_account_name", step, args, [kind |-> "template"],
        IF _does_project_exist(Get(args, "project_creation_mode"))
        THEN IF "project_id" \notin DOMAIN args
             THEN Res(None, <<>>, 0, "raise")            \* AssertionError
             ELSE LET billing_account == _has_existing_billing_account(step, billing_info)
                  IN IF billing_account.val # None THEN billing_account
                     ELSE BillingPrompt_select(step, billing_accounts, inp,
                                               billing_account.io)
        ELSE BillingPrompt_select(step, billing_accounts, inp, <<>>))

-----------------------------------------------------------------------------
(* The inputs of a session: what the user types, what the services answer  *)
(* and what was supplied as flags.                                         *)

\* the longest stream of typed lines one prompter is given
MaxLines == 2
A_1 == <<97, 99, 99, 116, 45, 49>>                   \* "acct-1"
A_2 == <<97, 99, 99, 116, 45, 50>>                   \* "acct-2"
A_3 == <<97, 99, 99, 116, 45, 51>>                   \* "acct-3"
Acct1 == [name |-> A_1, displayName |-> <<77, 97, 105, 110>>]    \* "Main"
Acct2 == [name |-> A_2, displayName |-> <<84, 101, 97, 109>>]    \* "Team"
Acct3 == [name |-> A_3, displayName |-> <<78, 101, 119>>]        \* "New"

\* the answers of BillingClient.list_billing_accounts(only_open_accounts=True)
Listings == {<<>>, <<Acct1>>, <<Acct1, Acct2>>, <<Acct2>>, <<Acct1, Acct3>>}

\* the answers of BillingClient.get_billing_account(project_id)
BillingInfos ==
    {[billingEnabled |-> FALSE, billingAccountName |-> <<>>],
     [billingEnabled |-> TRUE, billingAccountName |-> A_2]}

\* the answers of AuthClient.get_active_account()
ActiveAccounts == {None, <<117, 64, 120, 46, 121>>}  \* "u@x.y"

\* the values random.randint(100000, 1000000) is drawn from here: both ends
\* of its range, which is inclusive
RandInts == {100000, 1000000}

V_ab == <<97, 98>>                                   \* "ab"
V_shop99 == <<115, 104, 111, 112, 45, 57, 57>>       \* "shop-99"
V_Web == <<87, 101, 98>>                             \* "Web"
V_abc == <<97, 98, 99>>                              \* "abc"
V_hunter2 == <<104, 117, 110, 116, 101, 114, 50>>    \* "hunter2"
V_Hunter2 == <<72, 117, 110, 116, 101, 114, 50>>     \* "Hunter2"
V_9lives == <<57, 108, 105, 118, 101, 115>>          \* "9lives"
V_my_app == <<109, 121, 95, 97, 112, 112>>           \* "my_app"
V_root == <<114, 111, 111, 116>>                     \* "root"
V_a_at_b == <<97, 64, 98>>                           \* "a@b"
V_credsJson == <<99, 114, 101, 100, 115, 46, 106, 115, 111, 110>>  \* "creds.json"
V_srvNew == <<47, 115, 114, 118, 47, 110, 101, 119>> \* "/srv/new"

\* PROMPT_ORDER with the directory asked before the database password
PROMPT_ORDER_swapped ==
    << "project_id", "project_name", "billing_account_name",
       "django_directory_path", "database_password", "django_project_name",
       "django_app_name",
       "django_superuser_login", "django_superuser_password",
       "django_superuser_email" >>

\* PROMPT_ORDER with the project name asked before the project id
PROMPT_ORDER_name_first ==
    << "project_name", "project_id", "billing_account_name", "database_password",
       "django_directory_path", "django_project_name", "django_app_name",
       "django_superuser_login", "django_superuser_password",
       "django_superuser_email" >>

\* PROMPT_ORDER without the superuser email
PROMPT_ORDER_short ==
    << "project_id", "project_name", "billing_account_name", "database_password",
       "django_directory_path", "django_project_name", "django_app_name",
       "django_superuser_login", "django_superuser_password" >>

PROMPT_ORDER ==
    << "project_id", "project_name", "billing_account_name", "database_password",
       "django_directory_path", "django_project_name", "django_app_name",
       "django_superuser_login", "django_superuser_password",
       "django_superuser_email" >>

Keys == {"credentials"} \cup {PROMPT_ORDER[i] : i \in 1..Len(PROMPT_ORDER)}

\* the lines a user may type at the prompts of a parameter: blank, lines its
\* validator rejects and lines it accepts
Answers(k) ==
    CASE k = "credentials" -> {<<>>, S_n, <<120>>}
      [] k = "project_id" -> {<<>>, V_ab, V_shop99, P_shop01}
      [] k = "project_name" -> {<<>>, V_Web, S_DjangoProject}
      [] k = "billing_account_name" -> {<<>>, <<49>>, <<50>>, <<120>>}
      [] k = "database_password" -> {V_abc, V_hunter2}
      [] k = "django_directory_path" -> {<<>>, S_y}
      [] k = "django_project_name" -> {<<>>, V_9lives, S_mysite}
      [] k = "django_app_name" -> {<<>>, V_9lives, S_home}
      [] k = "django_superuser_login" -> {<<>>, V_my_app, S_admin}
      [] k = "django_superuser_password" -> {V_abc, V_hunter2}
      [] k = "django_superuser_email" -> {<<>>, V_a_at_b, S_testEmail}

\* a value a parameter may be pre-supplied with that its validator accepts
ValidFlag(k) ==
    CASE k = "credentials" -> V_credsJson
      [] k = "project_id" -> P_shop01
      [] k = "project_name" -> N_Shop
      [] k = "billing_account_name" -> A_1
      [] k = "database_password" -> V_hunter2
      [] k = "django_directory_path" -> V_srvNew
      [] k = "django_project_name" -> V_my_app
      [] k = "django_app_name" -> V_my_app
      [] k = "django_superuser_login" -> V_root
      [] k = "django_superuser_password" -> V_hunter2
      [] k = "django_superuser_email" -> S_testEmail

\* values a parameter may be pre-supplied with that its validator rejects
InvalidFlags(k) ==
    CASE k = "project_id" -> {V_ab}
      [] k = "project_name" -> {V_Web}
      [] k \in {"database_password", "django_superuser_password"} -> {V_abc}
      [] k \in {"django_project_name", "django_app_name"} -> {V_9lives}
      [] k = "django_superuser_login" -> {V_my_app}
      [] k = "django_superuser_email" -> {V_a_at_b}
      [] OTHER -> {}

\* a project name that is valid for a new project only
OtherFlags(k) == IF k = "project_name" THEN {S_DjangoProject} ELSE {}

FlagValues(k) == {ValidFlag(k)} \cup InvalidFlags(k) \cup OtherFlags(k)

StreamsOver(A, n) == UNION {[1..m -> A] : m \in 0..n}

Streams(k) == StreamsOver(Answers(k), MaxLines)

\* the mappings that pre-supply the keys F
FlagArgs(F) == {f \in [F -> UNION {FlagValues(k) : k \in F}] :
                   \A k \in F : f[k] \in FlagValues(k)}

\* every key pre-supplied with the value its validator accepts
AllFlags == [k \in Keys |-> ValidFlag(k)]

\* every key pre-supplied, with a value its validator rejects where there is
\* one
AllInvalidFlags ==
    [k \in Keys |-> IF InvalidFlags(k) = {} THEN ValidFlag(k)
                    ELSE CHOOSE v \in InvalidFlags(k) : TRUE]

\* mappings that carry project_creation_mode themselves, without
\* use_existing_project
PresetModeArgs ==
    {Put(f, "project_creation_mode", MUST_EXIST) :
        f \in {<<>>, [project_id |-> P_shop01]}}

\* the mappings RootPrompt.prompt is called with: no pre-supplied parameter,
\* one (any key, any of its values), an existing project id together with a
\* project name, or all of them; with use_existing_project as well where a
\* forking key or credentials or nothing is pre-supplied; and the mappings
\* that carry project_creation_mode
InitialArgs ==
    LET singles == UNION {FlagArgs(F) : F \in {G \in SUBSET Keys : Cardinality(G) <= 1}}
        flags == singles
                 \cup {f \in FlagArgs({"project_id", "project_name"}) :
                          f["project_id"] = P_shop01}
                 \cup {AllFlags, AllInvalidFlags}
        forking == {"project_id", "project_name", "billing_account_name"}
    IN flags \cup {Put(f, "use_existing_project", PyTrue) :
                      f \in {g \in flags : \/ DOMAIN g \cap forking # {}
                                           \/ DOMAIN g = {}
                                           \/ "credentials" \in DOMAIN g}}
       \cup PresetModeArgs

-----------------------------------------------------------------------------
(* RootPrompt.prompt as a state machine.  A step is one call of a          *)
(* prompter: it reads the lines the user types until the prompter returns. *)

VARIABLES
    pc,          \* "start", "credentials", "loop", "billing_poll", "done", "raised"
    i,           \* the position of the loop of RootPrompt.prompt in PROMPT_ORDER
    args,        \* the mapping RootPrompt.prompt was called with
    new_args,    \* the local new_args of RootPrompt.prompt
    before,      \* new_args as it was when the last step began
    last,        \* the key of the last step
    io,          \* the console events and service calls of the last step
    finished,    \* the PARAMETERs of the prompters that have returned, in order
    existing_billing_accounts,  \* the argument of _get_new_billing_account
    call,        \* a call of a validator or a prompt primitive on its own
    result,      \* what that call returned
    update,      \* the locals of main in update.py
    frame        \* the mapping objects: called_with, the content of args when
                 \* RootPrompt.prompt was called; aliased, new_args is the
                 \* object args; handed, the object passed to the prompter of
                 \* the last step as that call left it; fresh, the prompter's
                 \* result is another object than the one passed to it

vars == <<pc, i, args, new_args, before, last, io, finished,
          existing_billing_accounts, call, result, update, frame>>

NoCall == [fn |-> "none"]

\* update.main has not been called
NoUpdate == [status |-> "none"]

Init ==
    /\ pc = "start"
    /\ i = 1
    /\ args \in InitialArgs
    /\ new_args = <<>>
    /\ before = <<>>
    /\ last = "none"
    /\ io = <<>>
    /\ finished = <<>>
    /\ existing_billing_accounts = <<>>
    /\ call = NoCall
    /\ result = None
    /\ update = NoUpdate
    /\ frame = [called_with |-> args, aliased |-> FALSE, handed |-> <<>>,
                fresh |-> FALSE]

\* the answers of the services and of random.randint that the prompter of
\* the key k may get
Envs(k) ==
    CASE k = "credentials" -> {[active_account |-> x] : x \in ActiveAccounts}
      [] k = "project_id" -> {[rnd |-> x] : x \in RandInts}
      [] k = "billing_account_name" ->
            {[billing_info |-> x, billing_accounts |-> y] :
                 x \in BillingInfos, y \in Listings}
      [] OTHER -> {[none |-> TRUE]}

\* required_parameters_to_prompt[k].prompt(console, step, a), with the
\* prompters _setup_prompts registers, on the typed lines inp and the
\* service answers e
Prompter(k, step, a, inp, e) ==
    CASE k = "project_id" -> GoogleProjectId_prompt(step, a, inp, e.rnd)
      [] k = "project_name" -> GoogleProjectName_prompt(step, a, inp)
      [] k = "billing_account_name" ->
            BillingPrompt_prompt(step, a, inp, e.billing_info, e.billing_accounts)
      [] k = "database_password" -> PostgresPasswordPrompt_prompt(step, a, inp)
      [] k = "django_directory_path" -> DjangoFilesystemPath_prompt(step, a, inp)
      [] k = "django_project_name" ->
            StringTemplatePrompt_prompt(DjangoProjectNamePrompt, step, a, inp)
      [] k = "django_app_name" ->
            StringTemplatePrompt_prompt(DjangoAppNamePrompt, step, a, inp)
      [] k = "django_superuser_login" ->
            StringTemplatePrompt_prompt(DjangoSuperuserLoginPrompt, step, a, inp)
      [] k = "django_superuser_password" ->
            DjangoSuperuserPasswordPrompt_prompt(step, a, inp)
      [] k = "django_superuser_email" ->
            StringTemplatePrompt_prompt(DjangoSuperuserEmailPrompt, step, a, inp)

\* _get_creds: CredentialsPrompt(auth_client).prompt(console, first_step, args)
_get_creds(step, a, inp, e) == CredentialsPrompt_prompt(step, a, inp, e.active_account)

\* a prompter has come to an end having read exactly the lines inp
Ended(r, inp) == r.st \in {"ret", "raise", "poll"} /\ r.used = Len(inp)

\* lines 852-859: the copy of args and the creation mode
Begin ==
    /\ pc = "start"
    /\ LET copied == deepcopy(Handed(args))
           new_args_ == IF Truthy(Get(copied.map, "use_existing_project"))
                        THEN SetItem(copied, "project_creation_mode", MUST_EXIST)
                        ELSE copied
       IN /\ new_args' = new_args_.map
          /\ args' = IF new_args_.obj = "handed" THEN new_args_.map ELSE args
          /\ frame' = [frame EXCEPT !.aliased = (new_args_.obj = "handed")]
    /\ pc' = "credentials"
    /\ UNCHANGED <<i, before, last, io, finished, existing_billing_accounts,
                   call, result, update>>

\* lines 861-862: the credentials step, on args
CredentialsStep ==
    /\ pc = "credentials"
    /\ \E inp \in Streams("credentials"), e \in Envs("credentials") :
       LET r == _get_creds(1, args, inp, e) IN
        /\ Ended(r, inp)
        /\ before' = new_args
        /\ last' = "credentials"
        /\ io' = r.io
        /\ frame' = [frame EXCEPT !.handed = r.handed, !.fresh = r.fresh]
        /\ IF r.st = "ret"
           THEN /\ new_args' = Put(IF frame.aliased THEN r.handed ELSE new_args,
                                   "credentials", r.args["credentials"])
                /\ finished' = Append(finished, "credentials")
                /\ pc' = "loop"
           ELSE /\ pc' = "raised"
                /\ new_args' = IF frame.aliased THEN r.handed ELSE new_args
                /\ UNCHANGED finished
        /\ args' = IF frame.aliased THEN new_args' ELSE r.handed
    /\ UNCHANGED <<i, existing_billing_accounts, call, result, update>>

\* the loop goes on to the next key, or RootPrompt.prompt returns
AfterStep(k) ==
    /\ finished' = Append(finished, k)
    /\ i' = i + 1
    /\ pc' = IF i = Len(PROMPT_ORDER) THEN "done" ELSE "loop"

\* lines 864-869: one pass of the loop over PROMPT_ORDER
PromptStep ==
    /\ pc = "loop"
    /\ \E inp \in Streams(PROMPT_ORDER[i]), e \in Envs(PROMPT_ORDER[i]) :
       LET r == Prompter(PROMPT_ORDER[i], i + 1, new_args, inp, e) IN
        /\ Ended(r, inp)
        /\ before' = new_args
        /\ last' = PROMPT_ORDER[i]
        /\ io' = r.io
        /\ args' = IF frame.aliased THEN r.handed ELSE args
        /\ frame' = [frame EXCEPT !.handed = r.handed, !.fresh = r.fresh,
                                  !.aliased = IF r.st = "ret" THEN @ /\ ~r.fresh
                                              ELSE @]
        /\ CASE r.st = "ret" ->
                  /\ new_args' = r.args
                  /\ AfterStep(PROMPT_ORDER[i])
                  /\ UNCHANGED existing_billing_accounts
             [] r.st = "poll" ->
                  /\ pc' = "billing_poll"
                  /\ existing_billing_accounts' = r.poll
                  /\ UNCHANGED <<new_args, finished, i>>
             [] r.st = "raise" ->
                  /\ pc' = "raised"
                  /\ UNCHANGED <<new_args, finished, i, existing_billing_accounts>>
    /\ UNCHANGED <<call, result, update>>

\* one pass of the polling loop of _get_new_billing_account, on the answer
\* billing_accounts of list_billing_accounts: the name of a new account (any
\* one: a set has no order), IndexError when there is none, or a sleep
BillingPoll ==
    /\ pc = "billing_poll"
    /\ \E billing_accounts \in Listings :
        LET pass == _get_new_billing_account_pass(existing_billing_accounts,
                                                  billing_accounts) IN
        IF pass.st # "sleep"
        THEN IF pass.st = "raise"
             THEN /\ pc' = "raised"
                  /\ UNCHANGED <<new_args, finished, i, args, frame>>
             ELSE \E d \in pass.diff :
                  /\ new_args' = Put(new_args, "billing_account_name", d)
                  /\ frame' = [frame EXCEPT
                                  !.handed = IF frame.fresh THEN @ ELSE new_args',
                                  !.aliased = @ /\ ~frame.fresh]
                  /\ args' = IF frame'.aliased THEN new_args' ELSE args
                  /\ AfterStep("billing_account_name")
        ELSE UNCHANGED <<pc, new_args, finished, i, args, frame>>
    /\ UNCHANGED <<before, last, io, existing_billing_accounts, call, result,
                   update>>

Next == Begin \/ CredentialsStep \/ PromptStep \/ BillingPoll

Spec == Init /\ [][Next]_vars

-----------------------------------------------------------------------------
(* The validators and prompt primitives called on their own: a call is     *)
(* drawn from a bounded set of arguments and its result recorded.          *)

\* the longest password tried, beside the ones holding every allowed character
MaxPwLen == 6
\* the longest stream of masked entries given to _password_prompt
MaxPwLines == 4
\* the longest stream of answers given to _multiple_choice_prompt
MaxChoiceLines == 2
\* the longest run of one character in a project name
MaxNameRun == 26

\* a string holding each of the allowed characters once
Pangram == [j \in 1..94 |-> 32 + j]

\* the candidate passwords: every string of 'a' and ' ' up to MaxPwLen, and
\* strings around the full character set
PasswordInputs ==
    StreamsOver({97, 32}, MaxPwLen)
    \cup {Pangram, Pangram \o <<32>>, Pangram \o <<233>>, SubSeq(Pangram, 2, 94),
          SubSeq(Pangram, 1, 93), Pangram \o Pangram}

\* the masked entries: too short, and two that pass validation
PasswordLines == {V_abc, V_hunter2, V_Hunter2}

\* the menus of a choice prompt
OptionLists ==
    {<<>>, <<Acct1.displayName>>, <<Acct1.displayName, Acct2.displayName>>,
     <<Acct1.displayName, Acct2.displayName, Acct3.displayName>>}

\* the answers to a choice prompt: blank, non-numbers, and numbers around
\* the number of options and around the length of the menu text
ChoiceLines ==
    {<<>>, <<120>>, <<178>>, <<49, 120>>}
    \cup {Str(n) : n \in {0, 1, 2, 3, 4, 8, 9, 16, 17, 99}}

\* the project names: None, '', and a head followed by a run of one character
NameInputs ==
    {None, <<>>}
    \cup {h \o [j \in 1..n |-> c] :
            h \in {<<>>, <<77>>, <<109, 32>>, <<49>>, <<201>>, <<45>>, <<33>>},
            c \in {97, 65, 33, 57}, n \in 1..MaxNameRun}

InitFn ==
    /\ pc = "call"
    /\ i = 1
    /\ args = <<>>
    /\ new_args = <<>>
    /\ before = <<>>
    /\ last = "none"
    /\ io = <<>>
    /\ finished = <<>>
    /\ existing_billing_accounts = <<>>
    /\ call = NoCall
    /\ result = None
    /\ update = NoUpdate
    /\ frame = [called_with |-> args, aliased |-> FALSE, handed |-> <<>>,
                fresh |-> FALSE]

Returns(c, r) ==
    /\ call' = c
    /\ result' = r
    /\ UNCHANGED <<pc, i, args, new_args, before, last, io, finished,
                   existing_billing_accounts, update, frame>>

Call_password_validate ==
    /\ pc = "call" /\ call = NoCall
    /\ \E s \in PasswordInputs :
        Returns([fn |-> "_password_validate", s |-> s], _password_validate(s))

Call_password_prompt ==
    /\ pc = "call" /\ call = NoCall
    /\ \E inp \in StreamsOver(PasswordLines, MaxPwLines) :
        Returns([fn |-> "_password_prompt", inp |-> inp],
                _password_prompt(Ev("tell", "Enter a password", 0, None), inp))

Call_multiple_choice_prompt ==
    /\ pc = "call" /\ call = NoCall
    /\ \E options \in OptionLists, inp \in StreamsOver(ChoiceLines, MaxChoiceLines),
       default \in {None, <<>>} :
        Returns([fn |-> "_multiple_choice_prompt", options |-> options,
                 default |-> default, inp |-> inp],
                _multiple_choice_prompt(Ev("ask", "Please enter your numeric choice",
                                           0, None), options, default, inp))

Call_generate_default_project_id ==
    /\ pc = "call" /\ call = NoCall
    /\ \E project_name \in NameInputs, rnd \in RandInts :
        Returns([fn |-> "_generate_default_project_id",
                 project_name |-> project_name, rnd |-> rnd],
                _generate_default_project_id(project_name, rnd))

\* the answers to the question of CredentialsPrompt: blank, n, N, y, Y, x
CredentialLines == {<<>>, S_n, <<78>>, S_y, S_Y, <<120>>}

Call_CredentialsPrompt_prompt ==
    /\ pc = "call" /\ call = NoCall
    /\ \E inp \in StreamsOver(CredentialLines, MaxLines),
          active_account \in ActiveAccounts :
        Returns([fn |-> "CredentialsPrompt.prompt", args |-> <<>>, inp |-> inp,
                 active_account |-> active_account],
                CredentialsPrompt_prompt(1, <<>>, inp, active_account))

\* the lines typed at DjangoFilesystemPath: blank, y, n, a directory that
\* exists and one that does not
DirectoryLines == {<<>>, S_y, S_n, D_srvApp, V_srvNew}

Call_DjangoFilesystemPath_prompt ==
    /\ pc = "call" /\ call = NoCall
    /\ \E inp \in StreamsOver(DirectoryLines, MaxLines) :
        Returns([fn |-> "DjangoFilesystemPath.prompt", args |-> <<>>, inp |-> inp],
                DjangoFilesystemPath_prompt(1, <<>>, inp))

\* the polling loop of _get_new_billing_account on the successive answers
\* listings of list_billing_accounts
RECURSIVE _get_new_billing_account_loop(_, _, _)
_get_new_billing_account_loop(existing, listings, used) ==
    IF used >= Len(listings) THEN [st |-> "wait", diff |-> {}, used |-> used]
    ELSE LET pass == _get_new_billing_account_pass(existing, listings[used + 1])
         IN IF pass.st = "sleep"
            THEN _get_new_billing_account_loop(existing, listings, used + 1)
            ELSE [st |-> pass.st, diff |-> pass.diff, used |-> used + 1]

\* diff[0]: the list made of a set has no order the caller can rely on
Call_get_new_billing_account ==
    /\ pc = "call" /\ call = NoCall
    /\ \E existing \in Listings, listings \in StreamsOver(Listings, MaxLines) :
        LET r == _get_new_billing_account_loop(existing, listings, 0)
            c == [fn |-> "_get_new_billing_account",
                  existing_billing_accounts |-> existing, listings |-> listings]
        IN IF r.st = "ret"
           THEN \E d \in r.diff : Returns(c, Res(d, <<>>, r.used, "ret"))
           ELSE Returns(c, Res(None, <<>>, r.used, r.st))

\* the longest run of one letter tried as a project id
MaxIdLen == 31

\* candidate project ids: "a...a" of every length up to MaxIdLen, and ids
\* with a capital, a leading digit, a hyphen, or a character that is not
\* allowed before and after the sixth position
ProjectIdInputs ==
    {[j \in 1..n |-> 97] : n \in 0..MaxIdLen}
    \cup {P_shop01, V_ab, V_shop99,
          <<97, 49, 45, 98, 50, 99>>,                   \* "a1-b2c"
          <<65, 98, 99, 100, 101, 102>>,                \* "Abcdef"
          <<49, 98, 99, 100, 101, 102>>,                \* "1bcdef"
          <<45, 98, 99, 100, 101, 102>>,                \* "-bcdef"
          <<97, 98, 99, 100, 101, 70>>,                 \* "abcdeF"
          <<97, 98, 33, 100, 101, 102>>,                \* "ab!def"
          <<97, 98, 99, 100, 101, 102, 33>>,            \* "abcdef!"
          <<97, 98, 99, 100, 101, 102, 32, 103>>,       \* "abcdef g"
          <<97, 98, 99, 100, 101, 102, 71>>}            \* "abcdefG"

Call_GoogleNewProjectId_validate ==
    /\ pc = "call" /\ call = NoCall
    /\ \E s \in ProjectIdInputs :
        Returns([fn |-> "GoogleNewProjectId._validate", s |-> s],
                GoogleNewProjectId_validate(s))

\* BillingPrompt.validate: s is the name of one of billing_accounts, the
\* answer of list_billing_accounts().  BillingPrompt.prompt hands
\* self._validate, the inherited TemplatePrompt._validate, to
\* _is_valid_passed_arg: no line of the source calls this method.
BillingPrompt_validate(billing_accounts, s) ==
    IF s \notin Names(billing_accounts) THEN "billing_account_does_not_exist"
    ELSE "ok"

\* the mappings BillingPrompt.prompt is handed: no billing account, the name
\* of an account of the user, and names of no account in some listings
BillingCallArgs ==
    {<<>>, [billing_account_name |-> A_1], [billing_account_name |-> A_3],
     [billing_account_name |-> <<120>>]}

\* the lines typed at the billing menu: blank, numbers and a letter
BillingLines == {<<>>, <<48>>, <<49>>, <<50>>, <<51>>, <<57>>, <<120>>}

\* BillingPrompt.prompt for a new project; the accounts of the user are all
\* open, so that list_billing_accounts answers billing_accounts with and
\* without only_open_accounts
Call_BillingPrompt_prompt ==
    /\ pc = "call" /\ call = NoCall
    /\ \E a \in BillingCallArgs, inp \in StreamsOver(BillingLines, MaxLines),
          billing_accounts \in Listings :
        LET r == BillingPrompt_prompt(3, a, inp,
                     [billingEnabled |-> FALSE, billingAccountName |-> <<>>],
                     billing_accounts)
        IN /\ r.used = Len(inp)
           /\ Returns([fn |-> "BillingPrompt.prompt", args |-> a, inp |-> inp,
                       billing_accounts |-> billing_accounts], r)

\* the longest stream of lines given to _ask_prompt
MaxAskLines == 3

\* the lines typed at _ask_prompt: blank, a line no identifier, identifiers
AskLines == {<<>>, V_9lives, S_mysite, V_my_app}

\* the validators handed to _ask_prompt: none, one of names, one of ids
AskValidators ==
    {[kind |-> "none"], [kind |-> "django_name"], [kind |-> "new_project_id"]}

\* the defaults handed to _ask_prompt: None, '', a name its validator accepts
\* and one it rejects
AskDefaults == {None, <<>>, S_mysite, V_9lives}

Call_ask_prompt ==
    /\ pc = "call" /\ call = NoCall
    /\ \E validate \in AskValidators, default \in AskDefaults,
          inp \in StreamsOver(AskLines, MaxAskLines) :
        Returns([fn |-> "_ask_prompt", validate |-> validate, default |-> default,
                 inp |-> inp],
                _ask_prompt(Ev("ask", "Enter a value for", 0, default), validate,
                            default, inp))

\* the defaults handed to _binary_prompt: None, '', Y, n and a letter that
\* is neither
BinaryDefaults == {None, <<>>, S_Y, S_n, <<120>>}

Call_binary_prompt ==
    /\ pc = "call" /\ call = NoCall
    /\ \E default \in BinaryDefaults, inp \in StreamsOver(CredentialLines, MaxLines) :
        Returns([fn |-> "_binary_prompt", default |-> default, inp |-> inp],
                _binary_prompt(Ev("ask", "Do you want to use it? [Y/n]", 0, None),
                               default, inp))

NextFn ==
    \/ Call_binary_prompt
    \/ Call_ask_prompt
    \/ Call_BillingPrompt_prompt
    \/ Call_GoogleNewProjectId_validate
    \/ Call_get_new_billing_account
    \/ Call_DjangoFilesystemPath_prompt
    \/ Call_password_validate
    \/ Call_password_prompt
    \/ Call_multiple_choice_prompt
    \/ Call_generate_default_project_id
    \/ Call_CredentialsPrompt_prompt

SpecFn == InitFn /\ [][NextFn]_vars

-----------------------------------------------------------------------------
(* The update entry point: main of update.py (SpecUpdate). Its prompters   *)
(* come from the module cli.prompt; they are taken to validate and to      *)
(* collect as the prompters above do and to return the collected value.    *)

prompt_order == <<"credentials", "database_password", "django_directory_path">>

\* the keys of required_parameters_to_prompt, in the order of the dict
required_parameters_to_prompt ==
    <<"credentials", "database_password", "django_directory_path">>

\* the command flags: a password too short, a good one, the empty string
UpdateFlagValues(k) ==
    CASE k = "credentials" -> {V_credsJson}
      [] k = "database_password" -> {V_abc, V_hunter2, <<>>}
      [] k = "django_directory_path" -> {D_srvApp, V_srvNew}

\* the argparse namespace: every subset of the three flags
UpdateArgs ==
    UNION {{f \in [F -> UNION {UpdateFlagValues(k) : k \in F}] :
               \A k \in F : f[k] \in UpdateFlagValues(k)} :
           F \in SUBSET {"credentials", "database_password", "django_directory_path"}}

\* prompter.validate(value) of the prompter of parameter_name; path_ok is
\* the verdict of DjangoFilesystemPathUpdate.validate, for which no rule is
\* given
UpdateValidate(parameter_name, value, path_ok) ==
    CASE parameter_name = "credentials" -> TemplatePrompt_validate(value)
      [] parameter_name = "database_password" -> _password_validate(value)
      [] parameter_name = "django_directory_path" ->
            IF path_ok THEN "ok" ELSE "invalid_directory"

\* prompter.prompt(console, step, actual_parameters) of the prompter of
\* parameter_name
UpdatePrompter(parameter_name, step, actual_parameters, inp, e) ==
    CASE parameter_name = "credentials" ->
            CredentialsPrompt_prompt(step, actual_parameters, inp, e.active_account)
      [] parameter_name = "database_password" ->
            PostgresPasswordPrompt_prompt(step, actual_parameters, inp)
      [] parameter_name = "django_directory_path" ->
            DjangoFilesystemPath_prompt(step, actual_parameters, inp)

\* sorted(remaining_parameters_to_prompt.items(),
\*        key=lambda i: prompt_order.index(i[0]))
parameter_and_prompt(remaining_parameters_to_prompt) ==
    SelectSeq(prompt_order,
              LAMBDA k : \E j \in 1..Len(remaining_parameters_to_prompt) :
                            remaining_parameters_to_prompt[j] = k)

\* the label counting the steps from 0
StepLabel_zero(step, num_steps) == [step |-> step, of |-> num_steps]

\* '<b>[{}/{}]</b>'.format(step + 1, num_steps), step counted from 0
StepLabel(step, num_steps) == [step |-> step + 1, of |-> num_steps]

InitUpdate ==
    /\ pc = "validate"
    /\ i = 1
    /\ args \in UpdateArgs
    /\ new_args = <<>>
    /\ before = <<>>
    /\ last = "none"
    /\ io = <<>>
    /\ finished = <<>>
    /\ existing_billing_accounts = <<>>
    /\ call = NoCall
    /\ result = None
    /\ \E path_ok \in BOOLEAN :
          update = [status |-> "running", actual_parameters |-> <<>>,
                    remaining_parameters_to_prompt |-> <<>>, path_ok |-> path_ok,
                    backend |-> None, requirements |-> None]
    /\ frame = [called_with |-> args, aliased |-> FALSE, handed |-> <<>>,
                fresh |-> FALSE]

\* lines 69-79 without sys.exit(1)
ValidateFlag_noexit ==
    /\ pc = "validate"
    /\ LET parameter_name == required_parameters_to_prompt[i]
           value == Get(args, parameter_name)
       IN /\ update' =
                IF value # None
                THEN [update EXCEPT !.actual_parameters = Put(@, parameter_name, value)]
                ELSE [update EXCEPT !.remaining_parameters_to_prompt =
                                        Append(@, parameter_name)]
          /\ io' = IF value # None
                      /\ UpdateValidate(parameter_name, value, update.path_ok) # "ok"
                   THEN Append(io, [op |-> "stderr", val |-> value,
                                    msg |-> UpdateValidate(parameter_name, value,
                                                           update.path_ok)])
                   ELSE io
          /\ pc' = IF i = Len(required_parameters_to_prompt) THEN "header"
                   ELSE "validate"
          /\ i' = IF i = Len(required_parameters_to_prompt) THEN 1 ELSE i + 1
    /\ UNCHANGED <<args, new_args, before, last, finished,
                   existing_billing_accounts, call, result, frame>>

\* lines 69-79: one pass of the loop over required_parameters_to_prompt
ValidateFlag ==
    /\ pc = "validate"
    /\ LET parameter_name == required_parameters_to_prompt[i]
           value == Get(args, parameter_name)
           r == UpdateValidate(parameter_name, value, update.path_ok)
       IN IF value # None /\ r # "ok"
          THEN /\ io' = Append(io, [op |-> "stderr", msg |-> r, val |-> value])
               /\ update' = [update EXCEPT !.status = "exit 1"]
               /\ pc' = "exit"
               /\ UNCHANGED i
          ELSE /\ update' =
                     IF value # None
                     THEN [update EXCEPT !.actual_parameters =
                                             Put(@, parameter_name, value)]
                     ELSE [update EXCEPT !.remaining_parameters_to_prompt =
                                             Append(@, parameter_name)]
               /\ pc' = IF i = Len(required_parameters_to_prompt) THEN "header"
                        ELSE "validate"
               /\ i' = IF i = Len(required_parameters_to_prompt) THEN 1 ELSE i + 1
               /\ UNCHANGED io
    /\ UNCHANGED <<args, new_args, before, last, finished,
                   existing_billing_accounts, call, result, frame>>

\* lines 81-88: the header, when a parameter is left to prompt for
Header ==
    /\ pc = "header"
    /\ IF Len(update.remaining_parameters_to_prompt) > 0
       THEN /\ io' = io \o <<[op |-> "tell", msg |-> "steps to update your project",
                               val |-> Len(update.remaining_parameters_to_prompt)],
                              [op |-> "tell", msg |-> "", val |-> None]>>
            /\ pc' = "prompt"
       ELSE /\ pc' = "config"
            /\ UNCHANGED io
    /\ UNCHANGED <<i, args, new_args, before, last, finished,
                   existing_billing_accounts, call, result, update, frame>>

\* lines 90-93: one pass of the loop over parameter_and_prompt; i - 1 is
\* the step of enumerate
UpdatePromptStep ==
    /\ pc = "prompt"
    /\ LET sorted == parameter_and_prompt(update.remaining_parameters_to_prompt)
           num_steps == Len(update.remaining_parameters_to_prompt)
           parameter_name == sorted[i]
           step == StepLabel(i - 1, num_steps)
       IN \E inp \in Streams(parameter_name), e \in Envs(parameter_name) :
          LET r == UpdatePrompter(parameter_name, step.step,
                                  update.actual_parameters, inp, e)
          IN /\ r.st = "ret" /\ r.used = Len(inp)
             /\ io' = io \o <<[op |-> "prompt", msg |-> parameter_name,
                                step |-> step.step, of |-> step.of,
                                val |-> r.args[parameter_name]]>> \o r.io
             /\ update' = [update EXCEPT !.actual_parameters =
                                Put(@, parameter_name, r.args[parameter_name])]
             /\ finished' = Append(finished, parameter_name)
             /\ i' = i + 1
             /\ pc' = IF i = num_steps THEN "config" ELSE "prompt"
    /\ UNCHANGED <<args, new_args, before, last, existing_billing_accounts,
                   call, result, frame>>

\* the answers of config_obj.get('backend'): no backend, '', a backend
Backends == {None, <<>>, <<103, 107, 101>>}

\* lines 99-109 going on to the workflow whatever the configuration and the
\* requirements check answer
Config_unchecked ==
    /\ pc = "config"
    /\ \E backend \in Backends, requirements \in BOOLEAN :
          /\ pc' = "workflow"
          /\ update' = [update EXCEPT
                !.backend = backend,
                !.requirements = IF requirements THEN PyTrue ELSE PyFalse]
    /\ UNCHANGED <<i, args, new_args, before, last, io, finished,
                   existing_billing_accounts, call, result, frame>>

\* lines 99-109: the configuration of the project and the tools required;
\* backend is what config_obj.get('backend') returns, requirements what
\* check_and_handle_requirements returns (None in update: not called)
Config ==
    /\ pc = "config"
    /\ \E backend \in Backends, requirements \in BOOLEAN :
          /\ pc' = IF ~Truthy(backend) THEN "raised"
                   ELSE IF ~requirements THEN "returned" ELSE "workflow"
          /\ update' = [update EXCEPT
                !.backend = backend,
                !.requirements = IF ~Truthy(backend) THEN None
                                 ELSE IF requirements THEN PyTrue ELSE PyFalse,
                !.status = IF ~Truthy(backend) THEN "InvalidConfigError"
                           ELSE IF ~requirements THEN "returned" ELSE @]
    /\ UNCHANGED <<i, args, new_args, before, last, io, finished,
                   existing_billing_accounts, call, result, frame>>

\* lines 111-114: WorkflowManager(credentials).update_project(path, password)
Workflow ==
    /\ pc = "workflow"
    /\ io' = Append(io, [op |-> "update_project",
                         msg |-> update.actual_parameters["credentials"],
                         val |-> <<update.actual_parameters["django_directory_path"],
                                   update.actual_parameters["database_password"]>>])
    /\ update' = [update EXCEPT !.status = "returned"]
    /\ pc' = "done"
    /\ UNCHANGED <<i, args, new_args, before, last, finished,
                   existing_billing_accounts, call, result, frame>>

NextUpdate == ValidateFlag \/ Header \/ UpdatePromptStep \/ Config \/ Workflow

SpecUpdate == InitUpdate /\ [][NextUpdate]_vars

-----------------------------------------------------------------------------
(* The polling loop of BillingPrompt._get_new_billing_account, one pass at *)
(* a time, beside a billing service whose listing of the open accounts     *)
(* changes while the loop runs (SpecPoll).  call.listing is what           *)
(* list_billing_accounts(only_open_accounts=True) answers at the moment.   *)

\* the listings of the service: every set of the three accounts
PollListings ==
    {<<>>, <<Acct1>>, <<Acct2>>, <<Acct3>>, <<Acct1, Acct2>>, <<Acct1, Acct3>>,
     <<Acct2, Acct3>>, <<Acct1, Acct2, Acct3>>}

\* lines 525-529: _get_new_billing_account is called with the listing the
\* prompter has just taken; the browser is opened and the wait announced
InitPoll ==
    /\ pc = "poll_list"
    /\ i = 1
    /\ args = <<>>
    /\ new_args = <<>>
    /\ before = <<>>
    /\ last = "billing_account_name"
    /\ existing_billing_accounts \in PollListings
    /\ io = _get_new_billing_account_open(existing_billing_accounts, <<>>, 0).io
    /\ finished = <<>>
    /\ call = [fn |-> "_get_new_billing_account", listing |-> existing_billing_accounts]
    /\ result = None
    /\ update = NoUpdate
    /\ frame = [called_with |-> args, aliased |-> FALSE, handed |-> <<>>,
                fresh |-> FALSE]

\* the billing service: an account is opened or closed
ServiceChange ==
    /\ pc \in {"poll_list", "poll_sleep"}
    /\ \E listing \in PollListings \ {call.listing} :
          call' = [call EXCEPT !.listing = listing]
    /\ UNCHANGED <<pc, i, args, new_args, before, last, io, finished,
                   existing_billing_accounts, result, update, frame>>

\* lines 531-540: the listing is taken and compared; diff[0] is any name of
\* diff, and IndexError when diff is empty
PollList ==
    /\ pc = "poll_list"
    /\ LET pass == _get_new_billing_account_pass(existing_billing_accounts,
                                                 call.listing)
       IN CASE pass.st = "sleep" -> pc' = "poll_sleep" /\ UNCHANGED result
            [] pass.st = "raise" -> pc' = "poll_raised" /\ UNCHANGED result
            [] pass.st = "ret" ->
                  /\ pc' = "poll_returned"
                  /\ \E d \in pass.diff : result' = d
    /\ UNCHANGED <<i, args, new_args, before, last, io, finished,
                   existing_billing_accounts, call, update, frame>>

\* line 541: time.sleep(2) returns and the loop starts over
PollSleep ==
    /\ pc = "poll_sleep"
    /\ pc' = "poll_list"
    /\ UNCHANGED <<i, args, new_args, before, last, io, finished,
                   existing_billing_accounts, call, result, update, frame>>

NextPoll == ServiceChange \/ PollList \/ PollSleep

\* the loop keeps running: a listing call and a sleep both come to an end
SpecPoll ==
    InitPoll /\ [][NextPoll]_vars /\ WF_vars(PollList) /\ WF_vars(PollSleep)

-----------------------------------------------------------------------------
(* Properties of the validators and the prompt primitives (SpecFn) *)

\* string.ascii_letters, string.digits and string.punctuation, spelled out
ClaimAllowedSet ==
    (65..90) \cup (97..122) \cup (48..57)
    \cup {33, 34, 35, 36, 37, 38, 39, 40, 41, 42, 43, 44, 45, 46, 47, 58, 59, 60,
          61, 62, 63, 64, 91, 92, 93, 94, 95, 96, 123, 124, 125, 126}

C6_PasswordPrompt ==
    call.fn = "_password_prompt" =>
        /\ result.st = "ret" =>
              /\ result.used >= 2
              /\ call.inp[result.used - 1] = result.val
              /\ call.inp[result.used] = result.val
              /\ _password_validate(result.val) = "ok"
        /\ \A j \in 1..Len(result.io) :
              result.io[j].op = "error" =>
                  j < Len(result.io) /\ result.io[j + 1] = GetPass1

\* a mismatch of two valid entries, then the same entry twice
C6_Witness ==
    /\ call.fn = "_password_prompt"
    /\ result.st = "ret"
    /\ result.used = 4
    /\ call.inp[1] # call.inp[2]
    /\ _password_validate(call.inp[1]) = "ok"

AllDigits(s) == Len(s) >= 1 /\ \A j \in 1..Len(s) : s[j] \in 48..57

\* C7: in a choice prompt presenting option_count options, a non-blank
\* answer s is accepted if and only if s is numeric and
\* 1 <= int(s) <= option_count + 1; every other answer is rejected with an
\* error and asked again.
C7_ChoiceRange ==
    call.fn = "_multiple_choice_prompt" =>
        \A j \in 1..result.used :
            call.inp[j] # <<>> =>
                ((result.st = "ret" /\ j = result.used) <=>
                    (/\ AllDigits(call.inp[j])
                     /\ 1 <= ParseInt(call.inp[j])
                     /\ ParseInt(call.inp[j]) <= Len(call.options) + 1))

\* C9: the default project id is lowercase, holds only lowercase letters,
\* digits and hyphens, starts with a lowercase letter, ends with a hyphen
\* followed by exactly six digits, and is at most 30 characters long.
C9_DefaultProjectId ==
    call.fn = "_generate_default_project_id" =>
        LET n == Len(result) IN
        /\ \A j \in 1..n : result[j] \in (97..122) \cup (48..57) \cup {45}
        /\ n >= 8
        /\ result[1] \in 97..122
        /\ result[n - 6] = 45
        /\ \A j \in (n - 5)..n : result[j] \in 48..57
        /\ n <= 30

-----------------------------------------------------------------------------
(* Properties of a RootPrompt session (Spec) *)

\* the keys the claims speak of
ClaimKeys ==
    {"credentials", "project_id", "project_name", "billing_account_name",
     "database_password", "django_directory_path", "django_project_name",
     "django_app_name", "django_superuser_login", "django_superuser_password",
     "django_superuser_email"}

\* the mapping the prompter of the last step was handed
Incoming == IF last = "credentials" THEN args ELSE before

\* the last step has returned
StepReturned == last \in ClaimKeys /\ pc \in {"loop", "done"}

\* the validator of the prompter of key k, called with the mapping a
ClaimValidator(k, a) ==
    CASE k \in {"credentials", "billing_account_name"} -> [kind |-> "template"]
      [] k = "project_id" ->
            IF Truthy(Get(a, "use_existing_project"))
            THEN [kind |-> "existing_project_id"] ELSE [kind |-> "new_project_id"]
      [] k = "project_name" ->
            [kind |-> "project_name", project_id |-> Get(a, "project_id"),
             project_creation_mode |-> Get(a, "project_creation_mode")]
      [] k \in {"database_password", "django_superuser_password"} ->
            [kind |-> "password"]
      [] k = "django_directory_path" -> [kind |-> "none"]
      [] k \in {"django_project_name", "django_app_name"} -> [kind |-> "django_name"]
      [] k = "django_superuser_login" -> [kind |-> "superuser_login"]
      [] k = "django_superuser_email" -> [kind |-> "superuser_email"]

\* the last step was handed a mapping that holds its key
Passed == last \in ClaimKeys /\ last \in DOMAIN Incoming

PassedValid ==
    Passed /\ Validate(ClaimValidator(last, Incoming), Incoming[last]) = "ok"

PassedInvalid ==
    Passed /\ Validate(ClaimValidator(last, Incoming), Incoming[last]) # "ok"

Interactive == \E j \in 1..Len(io) : io[j].op \in {"ask", "getpass"}

\* C1: for every prompter RootPrompt runs, if the incoming mapping holds the
\* prompter's key with a value its validator accepts, prompt() invokes no
\* console.ask and no console.getpass and returns a mapping equal to the
\* incoming one.
C1_FlagShortCircuit ==
    PassedValid =>
        /\ pc \in {"loop", "done"}
        /\ ~Interactive
        /\ new_args[last] = Incoming[last]
        /\ new_args = before

\* the first event of the step is the error of the pre-supplied value, not
\* repeated, and its confirmation line is not printed
FlagErrorReportedOnce ==
    /\ Len(io) >= 2
    /\ io[1].op = "error"
    /\ io[1].msg = Validate(ClaimValidator(last, Incoming), Incoming[last])
    /\ io[2].op # "error"
    /\ \A j \in 1..Len(io) :
          ~(io[j].op = "tell" /\ io[j].msg = last /\ io[j].val = Incoming[last])

\* C2 as stated: a pre-supplied value its validator rejects is never fatal;
\* the error is reported once, no confirmation line is printed, the key is
\* collected interactively and the collected value is the one stored.
C2_InvalidFlagInteractive ==
    PassedInvalid =>
        /\ pc # "raised"
        /\ StepReturned =>
              /\ FlagErrorReportedOnce
              /\ Interactive
              /\ new_args[last] # Incoming[last]
              /\ Validate(ClaimValidator(last, Incoming), new_args[last]) = "ok"

\* the project name of an existing project is looked up, not asked for
LooksUpName ==
    last = "project_name" /\ Get(Incoming, "project_creation_mode") = MUST_EXIST

\* C2, amended: as C2, but the project_name step of an existing project
\* collects the name from the project service without asking the user.
C2_InvalidFlagCollected ==
    PassedInvalid =>
        /\ pc # "raised"
        /\ StepReturned =>
              /\ FlagErrorReportedOnce
              /\ IF LooksUpName
                 THEN /\ ~Interactive
                      /\ new_args[last] = get_project_name(Incoming["project_id"])
                 ELSE Interactive
              /\ new_args[last] # Incoming[last]
              /\ Validate(ClaimValidator(last, Incoming), new_args[last]) = "ok"

\* a rejected pre-supplied project id, then an id typed at the prompt
C2_Witness ==
    /\ PassedInvalid /\ StepReturned /\ Interactive
    /\ last = "project_id"
    /\ new_args["project_id"] = P_shop01

\* C3: from an empty mapping (use_existing_project false), the mapping
\* RootPrompt.prompt returns holds 'credentials' and each of the ten
\* PROMPT_ORDER keys with a value that is not None.
C3_AllPopulated ==
    (pc = "done" /\ args = <<>>) =>
        \A k \in ClaimKeys : k \in DOMAIN new_args /\ new_args[k] # None

C3_Witness == pc = "done" /\ args = <<>>

\* the order the claim gives
ClaimOrder ==
    << "credentials", "project_id", "project_name", "billing_account_name",
       "database_password", "django_directory_path", "django_project_name",
       "django_app_name", "django_superuser_login", "django_superuser_password",
       "django_superuser_email" >>

\* C4: the credentials step comes first and the parameters are then resolved
\* in exactly the PROMPT_ORDER sequence: the steps that have finished are an
\* initial part of that sequence, the step under way is the next one, and
\* every console interaction belongs to the step under way; no step is
\* revisited, whichever keys were pre-supplied.
C4_Order ==
    /\ Len(finished) <= Len(ClaimOrder)
    /\ finished = SubSeq(ClaimOrder, 1, Len(finished))
    /\ last # "none" =>
          /\ last = ClaimOrder[IF pc \in {"loop", "done"} THEN Len(finished)
                               ELSE Len(finished) + 1]
          /\ \A j \in 1..Len(io) : io[j].who = last
    /\ pc = "done" => Len(finished) = Len(ClaimOrder)

\* a finished session in which one key was pre-supplied and the others asked
C4_Witness ==
    /\ pc = "done"
    /\ "database_password" \in DOMAIN args
    /\ "project_id" \notin DOMAIN args
    /\ Interactive

\* C8: for an existing project (MUST_EXIST), with no billing account
\* pre-supplied and billing enabled on the project, BillingPrompt.prompt
\* stores the reported billingAccountName and returns without listing the
\* billing accounts, without a menu or any console.ask, and without opening
\* the browser.
BillingReportedEnabled ==
    \E j \in 1..Len(io) :
        io[j].op = "svc" /\ io[j].msg = "get_billing_account" /\ io[j].val # PyFalse

C8_Precondition ==
    /\ last = "billing_account_name"
    /\ Get(before, "project_creation_mode") = MUST_EXIST
    /\ "billing_account_name" \notin DOMAIN before

C8_BillingAlreadyEnabled ==
    (C8_Precondition /\ \E j \in 1..Len(io) : io[j].msg = "get_billing_account") =>
        LET j == CHOOSE j \in 1..Len(io) : io[j].msg = "get_billing_account"
        IN io[j].val # PyFalse =>
            /\ pc \in {"loop", "done"}
            /\ new_args["billing_account_name"] = io[j].val
            /\ \A m \in 1..Len(io) :
                  /\ io[m].op \notin {"ask", "getpass", "browser"}
                  /\ io[m].msg # "list_billing_accounts"

C8_Witness ==
    C8_Precondition /\ BillingReportedEnabled /\ pc = "loop"

\* C10: across a session the key set of the mapping only grows, and the step
\* for key k leaves every key other than k as it was.
C10_Monotonic ==
    /\ pc # "start" => DOMAIN args \subseteq DOMAIN new_args
    /\ last # "none" =>
          /\ DOMAIN before \subseteq DOMAIN new_args
          /\ DOMAIN new_args \subseteq DOMAIN before \cup {last}
          /\ \A k \in DOMAIN before \ {last} : new_args[k] = before[k]

\* a step that replaced the value of its own key
C10_Witness ==
    /\ StepReturned
    /\ last \in DOMAIN before
    /\ new_args[last] # before[last]
    /\ Cardinality(DOMAIN before) >= 3

\* C11: no prompter, and not RootPrompt.prompt itself, changes the mapping
\* object it was handed: after a prompt() call, re-prompts included, the
\* caller's mapping equals what it was before the call, and the mapping
\* returned is another object.
C11_NoAliasing ==
    /\ args = frame.called_with
    /\ pc = "done" => ~frame.aliased
    /\ last \in ClaimKeys =>
          /\ frame.handed = Incoming
          /\ (StepReturned \/ pc = "billing_poll") => frame.fresh

\* a prompter returned after an error made it ask again, in a session whose
\* start wrote project_creation_mode
C11_Witness ==
    /\ StepReturned
    /\ \E j \in 1..Len(io) : io[j].op = "error"
    /\ Interactive
    /\ new_args # before
    /\ "project_creation_mode" \in DOMAIN new_args

\* the session is one for an existing project
UseExisting == Truthy(Get(args, "use_existing_project"))

\* C18: when use_existing_project is set, the project_id in the mapping after
\* the project_id step names a project the project service reports as
\* existing, whether it was pre-supplied or typed; an id of a project that
\* does not exist is rejected with an error and the id is asked for again.
C18_ExistingProjectId ==
    UseExisting =>
        /\ (\E j \in 1..Len(finished) : finished[j] = "project_id")
              => project_exists(new_args["project_id"])
        /\ last = "project_id" =>
              /\ (Passed /\ ~project_exists(Incoming["project_id"])) =>
                    /\ Len(io) >= 2
                    /\ io[1].op = "error" /\ io[1].val = Incoming["project_id"]
              /\ \A j \in 1..Len(io) :
                    io[j].op = "error" =>
                        /\ j < Len(io) /\ io[j + 1].op = "ask"
                        /\ ~(MatchProjectId(io[j].val) /\ project_exists(io[j].val))

\* the id of a project that does not exist was typed and refused, then the
\* id of one that exists
C18_Witness ==
    /\ UseExisting /\ last = "project_id" /\ StepReturned
    /\ \E j \in 1..Len(io) : io[j].op = "error" /\ io[j].val = V_shop99
    /\ new_args["project_id"] = P_shop01

\* C19: a project name is accepted only if its length is in [4,30]; for an
\* existing project it must also equal the name the project service records
\* for the project_id of the mapping. For an existing project with no valid
\* pre-supplied name the project_name step asks no question and stores the
\* name on record, so that after the step project_name is the service's
\* name for project_id.
C19_ProjectName ==
    (last = "project_name" /\ StepReturned) =>
        LET name == new_args["project_name"]
            accepted == \/ ~LooksUpName
                        \/ (Passed /\ io[1].op # "error")
        IN /\ accepted => (4 <= Len(name) /\ Len(name) <= 30)
           /\ (Passed /\ io[1].op # "error") => name = Incoming["project_name"]
           /\ LooksUpName =>
                 /\ name = get_project_name(new_args["project_id"])
                 /\ ~Interactive
           /\ \A j \in 1..Len(io) :
                 io[j].op = "error" =>
                     \/ ~(4 <= Len(io[j].val) /\ Len(io[j].val) <= 30)
                     \/ /\ LooksUpName
                        /\ io[j].val # get_project_name(new_args["project_id"])

\* for an existing project, a pre-supplied name of the right length that is
\* not the name on record
C19_Witness ==
    /\ last = "project_name" /\ StepReturned /\ LooksUpName
    /\ Passed /\ Incoming["project_name"] = S_DjangoProject
    /\ new_args["project_name"] = N_Shop

\* the step of key k asked the question msg
Asked(k, msg) ==
    last = k /\ \E j \in 1..Len(io) : io[j].op = "ask" /\ io[j].msg = msg

\* the steps that fork take the branch of UseExisting
SameBranch ==
    /\ Asked("project_id", "Enter the existing Google Cloud Platform Project ID")
          => UseExisting
    /\ Asked("project_id", "Enter a Google Cloud Platform Project ID")
          => ~UseExisting
    /\ Asked("project_name", "Enter a Google Cloud Platform project name")
          => ~UseExisting
    /\ (last = "project_name" /\ StepReturned /\ ~Interactive /\ ~PassedValid)
          => UseExisting
    /\ (last = "billing_account_name"
        /\ \E j \in 1..Len(io) : io[j].msg = "get_billing_account")
          => UseExisting

\* C20: project_creation_mode is fixed at session start (MUST_EXIST exactly
\* when use_existing_project is truthy in the incoming mapping) and no
\* prompter changes it afterwards; so the project_id step, which forks on
\* use_existing_project, and the project_name and billing steps, which fork
\* on project_creation_mode, take the same existing-or-new branch within a
\* session, for every incoming mapping.
C20_CreationMode ==
    pc # "start" =>
        /\ (Get(new_args, "project_creation_mode") = MUST_EXIST) <=> UseExisting
        /\ SameBranch

\* the same for the incoming mappings that do not carry
\* project_creation_mode themselves
C20_DerivedMode ==
    "project_creation_mode" \notin DOMAIN args => C20_CreationMode

-----------------------------------------------------------------------------
(* Properties of single prompters (SpecFn) *)

\* the number of events of result.io that are calls of the service svc
SvcCalls(svc) ==
    Cardinality({j \in 1..Len(result.io) :
                    result.io[j].op = "svc" /\ result.io[j].msg = svc})

\* the number of questions asked in result.io
Asks == Cardinality({j \in 1..Len(result.io) : result.io[j].op = "ask"})

\* the call of CredentialsPrompt.prompt returned
CredentialsReturned ==
    call.fn = "CredentialsPrompt.prompt" /\ result.st = "ret"

\* exactly one of get_default_credentials and create_default_credentials is
\* called, once, and its result is stored under 'credentials'; with an
\* active account the reuse is offered and the fresh flow runs just when
\* the user answers n or N
C14_OneCallAndReuse ==
    CredentialsReturned =>
        /\ SvcCalls("get_default_credentials") + SvcCalls("create_default_credentials") = 1
        /\ \E j \in 1..Len(result.io) :
              /\ result.io[j].msg \in {"get_default_credentials",
                                       "create_default_credentials"}
              /\ result.args["credentials"] = result.io[j].val
        /\ Truthy(call.active_account) =>
              /\ Asks = 1
              /\ SvcCalls("create_default_credentials") = 1
                    <=> call.inp[result.used] \in {S_n, <<78>>}
        /\ ~Truthy(call.active_account) => SvcCalls("create_default_credentials") = 1

\* C14: CredentialsPrompt without pre-supplied credentials: with an active
\* account it offers to reuse it (blank means yes) and gets the default
\* credentials unless the user declines with n/N, when it runs the fresh
\* authentication flow; with no active account it runs the fresh flow
\* without offering reuse. In every case exactly one of
\* get_default_credentials / create_default_credentials is called, once,
\* and its result is stored under 'credentials'.
C14_Credentials ==
    /\ C14_OneCallAndReuse
    /\ (CredentialsReturned /\ ~Truthy(call.active_account)) => Asks = 0

\* the directory entered at the first question of DjangoFilesystemPath
EnteredDirectory ==
    IF call.inp[1] = <<>> THEN path_join(home_dir, S_djangoProjectDir)
    ELSE call.inp[1]

\* the number of times the directory was asked for
DirectoryQuestions ==
    Cardinality({j \in 1..Len(result.io) :
        result.io[j].op = "ask"
        /\ result.io[j].msg = "Enter a new directory path to store project source"})

ReturnedDirectory(d, used) ==
    /\ result.st = "ret"
    /\ result.used = used
    /\ result.args["django_directory_path"] = d

\* when the directory does not exist, or the user accepts the overwrite,
\* the entered directory is returned
C15_AcceptProceeds ==
    (call.fn = "DjangoFilesystemPath.prompt" /\ Len(call.inp) >= 1) =>
        /\ ~path_exists(EnteredDirectory) => ReturnedDirectory(EnteredDirectory, 1)
        /\ (path_exists(EnteredDirectory) /\ Len(call.inp) >= 2 /\ call.inp[2] = S_y)
              => ReturnedDirectory(EnteredDirectory, 2)

\* C15: DjangoFilesystemPath.prompt: when the entered directory exists and
\* the user declines the overwrite confirmation (n, or blank for the default
\* n), the prompter asks for a directory again and does not return the
\* declined directory; when the user accepts, or the directory does not
\* exist, it returns the entered directory.
C15_DeclineAsksAgain ==
    /\ C15_AcceptProceeds
    /\ (/\ call.fn = "DjangoFilesystemPath.prompt"
        /\ Len(call.inp) >= 2
        /\ path_exists(EnteredDirectory)
        /\ call.inp[2] \in {<<>>, S_n})
          => /\ DirectoryQuestions >= 2
             /\ ~ReturnedDirectory(EnteredDirectory, 2)

\* whenever _get_new_billing_account returns, the name returned is in the
\* latest listing and not in the listing taken before the browser was opened
C16_ReturnsNewAccount ==
    (call.fn = "_get_new_billing_account" /\ result.st = "ret") =>
        /\ result.val \in Names(call.listings[result.used])
        /\ result.val \notin Names(call.existing_billing_accounts)

\* C16: whenever _get_new_billing_account returns, the identifier returned
\* names an account of the latest listing that is absent from the listing
\* taken before the browser was opened; it never fails, and never returns an
\* account that existed before, when the number of accounts listed changes,
\* whatever listings the billing service produces.
C16_NewBillingAccount ==
    /\ C16_ReturnsNewAccount
    /\ call.fn = "_get_new_billing_account" => result.st # "raise"

\* s is a lowercase letter followed by 5 to 29 lowercase letters, digits or
\* hyphens, and nothing else
WholeProjectId(s) ==
    /\ Len(s) >= 6 /\ Len(s) <= 30
    /\ s[1] \in 97..122
    /\ \A j \in 2..Len(s) : s[j] \in (97..122) \cup (48..57) \cup {45}

\* the validator accepts every well-formed id
C17_AcceptsWholeIds ==
    (call.fn = "GoogleNewProjectId._validate" /\ WholeProjectId(call.s))
        => result = "ok"

\* C17: the new-project identifier validator accepts s if and only if s is a
\* lowercase letter followed by 5 to 29 further characters that are all
\* lowercase letters, digits or hyphens (6 to 30 characters in all and no
\* other character); every other string is rejected.
C17_NewProjectId ==
    call.fn = "GoogleNewProjectId._validate" =>
        (result = "ok" <=> WholeProjectId(call.s))

-----------------------------------------------------------------------------
(* Properties of the update entry point (SpecUpdate) *)

\* the flag of parameter k was given and its validator rejects the value
FlagFails(k) ==
    k \in DOMAIN args /\ UpdateValidate(k, args[k], update.path_ok) # "ok"

\* main has got past the validation of the flags
PastValidation ==
    pc \in {"header", "prompt", "config", "workflow", "done", "raised", "returned"}

\* C12: in the update entry point, if a flag-supplied value (credentials,
\* database_password, django_directory_path) fails validation, the process
\* prints the error and exits with status 1 before any prompt is shown and
\* before the update workflow is invoked; a validation failure at a prompt
\* never terminates the process.
C12_FlagFailureExits ==
    /\ (\E k \in DOMAIN args : FlagFails(k)) => ~PastValidation
    /\ pc = "validate" =>
          \A j \in 1..(i - 1) : ~FlagFails(required_parameters_to_prompt[j])
    /\ pc = "exit" =>
          /\ update.status = "exit 1"
          /\ FlagFails(required_parameters_to_prompt[i])
          /\ io = <<[op |-> "stderr", val |-> args[required_parameters_to_prompt[i]],
                    msg |-> UpdateValidate(required_parameters_to_prompt[i],
                                           args[required_parameters_to_prompt[i]],
                                           update.path_ok)]>>
    /\ (\E j \in 1..Len(io) : io[j].op = "error") =>
          /\ update.status # "exit 1"
          /\ PastValidation

\* a rejected password flag after an accepted credentials flag
C12_Witness ==
    /\ pc = "exit"
    /\ "credentials" \in DOMAIN args
    /\ "database_password" \in DOMAIN args
    /\ FlagFails("database_password")

\* the calls of prompter.prompt so far
PromptCalls == SelectSeq(io, LAMBDA ev : ev.op = "prompt")

\* the parameters without a flag, in the order of prompt_order
Unflagged == SelectSeq(prompt_order, LAMBDA k : k \notin DOMAIN args)

\* C13: in the update entry point a parameter whose flag is present and
\* valid is never prompted for and its flag value is the one handed to the
\* workflow; exactly the parameters without a flag are prompted, in the
\* relative order credentials, database_password, django_directory_path,
\* with step labels 1..k of k, k the number of parameters without a flag;
\* with all three flags no prompt and no step header is shown.
C13_UpdateFlags ==
    PastValidation =>
        /\ Len(PromptCalls) <= Len(Unflagged)
        /\ \A n \in 1..Len(PromptCalls) :
              /\ PromptCalls[n].msg = Unflagged[n]
              /\ PromptCalls[n].step = n
              /\ PromptCalls[n].of = Len(Unflagged)
        /\ pc \notin {"header", "prompt"} => Len(PromptCalls) = Len(Unflagged)
        /\ \A j \in 1..Len(io) :
              /\ "who" \in DOMAIN io[j] => io[j].who \notin DOMAIN args
              /\ io[j].op = "update_project" =>
                    /\ "credentials" \in DOMAIN args => io[j].msg = args["credentials"]
                    /\ "django_directory_path" \in DOMAIN args =>
                          io[j].val[1] = args["django_directory_path"]
                    /\ "database_password" \in DOMAIN args =>
                          io[j].val[2] = args["database_password"]
        /\ pc # "header" =>
              ((\E j \in 1..Len(io) : io[j].op = "tell"
                                      /\ io[j].msg = "steps to update your project")
               <=> Len(Unflagged) > 0)
        /\ Len(Unflagged) = 0 =>
              \A j \in 1..Len(io) : io[j].op = "update_project"

\* the workflow is invoked after one flag and two prompts
C13_Witness ==
    /\ pc = "done"
    /\ DOMAIN args = {"database_password"}
    /\ Len(PromptCalls) = 2

-----------------------------------------------------------------------------
(* Properties of BillingPrompt called on its own (SpecFn) *)

\* the events of the given operations among the console events io
EventsOf(evs, ops) == SelectSeq(evs, LAMBDA ev : ev.op \in ops)

\* C21: a pre-supplied billing_account_name is validated before it
\* short-circuits the billing step: a value that is not the name of one of
\* the user's billing accounts is rejected with 'The provided billing account
\* does not exist.' and the step falls through to interactive billing
\* selection; only a name present in the billing service's account list is
\* accepted without interaction.
C21_BillingFlagValidated ==
    (call # NoCall /\ call.fn = "BillingPrompt.prompt"
     /\ "billing_account_name" \in DOMAIN call.args) =>
        LET s == call.args["billing_account_name"]
        IN IF BillingPrompt_validate(call.billing_accounts, s) = "ok"
           THEN /\ result.st = "ret"
                /\ result.used = 0
                /\ result.args["billing_account_name"] = s
                /\ EventsOf(result.io, {"ask", "browser", "error"}) = <<>>
           ELSE /\ Len(result.io) >= 2
                /\ result.io[1].op = "error"
                /\ result.io[1].msg = "billing_account_does_not_exist"
                /\ result.io[2].op = "svc"
                /\ result.io[2].msg = "list_billing_accounts"
                /\ EventsOf(result.io, {"ask"}) # <<>>

\* the part of C21 about the names of the user's accounts: a listed name is
\* accepted without interaction
C21_ListedAccepted ==
    (call # NoCall /\ call.fn = "BillingPrompt.prompt"
     /\ "billing_account_name" \in DOMAIN call.args
     /\ BillingPrompt_validate(call.billing_accounts,
                               call.args["billing_account_name"]) = "ok") =>
        /\ result.st = "ret"
        /\ result.used = 0
        /\ result.args = call.args
        /\ EventsOf(result.io, {"ask", "browser", "error"}) = <<>>

-----------------------------------------------------------------------------
(* Properties of _ask_prompt and _binary_prompt (SpecFn) *)

\* the j-th line of the call as the prompt takes it: the default in place
\* of a blank line when there is a non-empty default
Entry(j) ==
    IF call.default \notin {None, <<>>} /\ call.inp[j] = <<>> THEN call.default
    ELSE call.inp[j]

\* the question of the call
AskedQuestion == Ev("ask", "Enter a value for", 0, call.default)

\* C22: _ask_prompt returns only a value that its validator accepted: for
\* every input stream, each rejected entry produces exactly one console.error
\* followed by a new console.ask, a blank entry is replaced by the default
\* when a (non-empty) default exists and that default is itself validated,
\* and the returned value is the first (possibly defaulted) entry that passes
\* validation.
C22_AskPrompt ==
    (call # NoCall /\ call.fn = "_ask_prompt") =>
        LET Accepted(j) == Validate(call.validate, Entry(j)) = "ok"
            rejected == IF result.st = "ret" THEN result.used - 1 ELSE result.used
        IN /\ result.st \in {"ret", "wait"}
           /\ result.st = "ret" =>
                 /\ result.used \in 1..Len(call.inp)
                 /\ result.val = Entry(result.used)
                 /\ Accepted(result.used)
           /\ result.st = "wait" => result.used = Len(call.inp)
           /\ \A j \in 1..rejected : ~Accepted(j)
           /\ Len(result.io) = 2 * rejected + 1
           /\ \A j \in 1..(rejected + 1) : result.io[2 * j - 1] = AskedQuestion
           /\ \A j \in 1..rejected :
                 result.io[2 * j] = ErrEv(Validate(call.validate, Entry(j)), Entry(j))

\* a blank line took a default the validator rejects, and the next line was
\* returned
C22_Witness ==
    /\ call # NoCall /\ call.fn = "_ask_prompt"
    /\ call.validate = [kind |-> "django_name"]
    /\ call.default = V_9lives
    /\ call.inp = <<<<>>, S_mysite>>
    /\ result.st = "ret"
    /\ result.val = S_mysite

\* C23: _binary_prompt validates only the defaulted path: a blank answer with
\* a default returns the default after checking it is y/n (case-insensitive),
\* while any non-blank answer is returned exactly as typed after a single
\* ask, without validation and without re-asking, even when it is neither y
\* nor n.
C23_BinaryPrompt ==
    (call # NoCall /\ call.fn = "_binary_prompt") =>
        LET question == Ev("ask", "Do you want to use it? [Y/n]", 0, None)
            Defaulted(j) == call.default \notin {None, <<>>} /\ call.inp[j] = <<>>
            YesOrNo(s) == s \in {<<121>>, <<89>>, <<110>>, <<78>>}
            Accepted(j) == Defaulted(j) => YesOrNo(call.default)
            rejected == IF result.st = "ret" THEN result.used - 1 ELSE result.used
        IN /\ result.st \in {"ret", "wait"}
           /\ result.st = "ret" =>
                 /\ result.used \in 1..Len(call.inp)
                 /\ Accepted(result.used)
                 /\ result.val = IF Defaulted(result.used) THEN call.default
                                 ELSE call.inp[result.used]
           /\ result.st = "wait" => result.used = Len(call.inp)
           /\ \A j \in 1..rejected : Defaulted(j) /\ ~YesOrNo(call.default)
           /\ Len(result.io) = 2 * rejected + 1
           /\ \A j \in 1..(rejected + 1) : result.io[2 * j - 1] = question
           /\ \A j \in 1..rejected :
                 result.io[2 * j] = Ev("error", "respond_y_or_n", 0, None)
           /\ (Len(call.inp) >= 1 /\ call.inp[1] # <<>>) =>
                 /\ result.st = "ret"
                 /\ result.val = call.inp[1]
                 /\ result.io = <<question>>

\* an answer that is neither y nor n was returned as typed
C23_Witness ==
    /\ call # NoCall /\ call.fn = "_binary_prompt"
    /\ call.default = S_Y
    /\ call.inp = << <<120>> >>
    /\ result.st = "ret"
    /\ result.val = <<120>>

\* BillingPrompt.prompt was called with no billing account pre-supplied and
\* the user has open billing accounts: the menu is shown
MenuShown ==
    /\ call # NoCall /\ call.fn = "BillingPrompt.prompt"
    /\ "billing_account_name" \notin DOMAIN call.args
    /\ Len(call.billing_accounts) >= 1

\* C24: in the billing account menu (user has N >= 1 open billing accounts),
\* a blank answer bypasses range validation and starts the create-new-account
\* flow, and every non-blank answer that the choice prompt accepts makes
\* BillingPrompt return the 'name' of one of the N listed accounts (the one
\* at the chosen 1-based position); no accepted answer makes the step fail.
C24_BillingMenu ==
    MenuShown =>
        /\ result.st \in {"ret", "poll", "wait"}
        /\ (Len(call.inp) >= 1 /\ call.inp[1] = <<>>) =>
              /\ result.st = "poll"
              /\ result.used = 1
              /\ EventsOf(result.io, {"browser"}) # <<>>
              /\ EventsOf(result.io, {"error"}) = <<>>
        /\ result.st = "ret" =>
              /\ result.args["billing_account_name"] \in Names(call.billing_accounts)
              /\ \E n \in 1..Len(call.billing_accounts) :
                    /\ call.inp[result.used] = Str(n)
                    /\ result.args["billing_account_name"] = call.billing_accounts[n].name

\* the parts of C24 that do not depend on the range the menu accepts: a
\* blank answer starts the creation of an account, and a returned name is
\* the name of the account at the position typed
C24_BlankAndListed ==
    MenuShown =>
        /\ (Len(call.inp) >= 1 /\ call.inp[1] = <<>>) =>
              /\ result.st = "poll"
              /\ result.used = 1
              /\ EventsOf(result.io, {"browser"}) # <<>>
              /\ EventsOf(result.io, {"error"}) = <<>>
        /\ result.st = "ret" =>
              \E n \in 1..Len(call.billing_accounts) :
                    /\ call.inp[result.used] = Str(n)
                    /\ result.args["billing_account_name"] = call.billing_accounts[n].name
        /\ result.st = "raise" =>
              /\ ParseInt(call.inp[result.used])
                     <= 1 + _multiple_choice_len(
                                [n \in 1..Len(call.billing_accounts) |->
                                    call.billing_accounts[n].displayName])
              /\ ParseInt(call.inp[result.used]) > Len(call.billing_accounts)

-----------------------------------------------------------------------------
(* Properties of the polling loop (SpecPoll) *)

\* the listing of the service holds an account that was not in the listing
\* taken before the browser was opened
NewAccountListed == Names(call.listing) \ Names(existing_billing_accounts) # {}

\* C25: billing poll liveness: once the create-new-account flow has started,
\* if the billing service's open-account listing eventually contains (and
\* keeps containing) an account that was not in the initial listing,
\* _get_new_billing_account eventually returns; as long as the listing stays
\* equal to the initial one it never returns (there is no timeout or retry
\* limit).
C25_PollLiveness ==
    /\ (<>[]NewAccountListed) => <>(pc = "poll_returned")
    /\ ([](call.listing = existing_billing_accounts))
          => [](pc \in {"poll_list", "poll_sleep"})

\* C25 for a listing that ends up longer than the initial one: the loop
\* returns, and it returns a name that was not in the initial listing
C25_GrowthReturns ==
    /\ (<>[](Len(call.listing) > Len(existing_billing_accounts)))
          => <>(pc = "poll_returned")
    /\ ([](call.listing = existing_billing_accounts))
          => [](pc \in {"poll_list", "poll_sleep"})
    /\ [](pc = "poll_returned" =>
             result \notin Names(existing_billing_accounts))

-----------------------------------------------------------------------------
(* Properties of the whole session (Spec) *)

\* the questions of a step: console.ask and console.getpass
Questions == {"ask", "getpass"}

\* RootPrompt.prompt has been ended by an exception raised in a step that
\* had asked the user something, and not in the polling loop, which the
\* answers of the billing service end
AbortedAtPrompt ==
    /\ pc = "raised"
    /\ existing_billing_accounts = <<>>
    /\ EventsOf(io, Questions) # <<>>

\* every error reported on a typed entry is followed by the question again
TypedErrorsRetried ==
    \A j \in 2..Len(io) :
        (io[j].op = "error" /\ io[j - 1].op \in Questions) =>
            /\ j < Len(io)
            /\ io[j + 1].op \in Questions

\* lines every prompt of the step of key k accepts
Acceptable(k) ==
    CASE k = "project_id" -> <<P_shop01>>
      [] k = "project_name" -> <<S_DjangoProject>>
      [] k = "billing_account_name" -> << <<49>> >>
      [] k \in {"database_password", "django_superuser_password"} ->
            <<V_hunter2, V_hunter2>>
      [] k = "django_directory_path" -> <<V_srvNew>>
      [] k \in {"django_project_name", "django_app_name"} -> <<V_my_app>>
      [] k = "django_superuser_login" -> <<S_admin>>
      [] k = "django_superuser_email" -> <<S_testEmail>>

\* the step the loop is at comes to an end when the user types lines its
\* prompts accept, whatever the services answer: the prompter returns, or
\* has gone on to wait for the new billing account
CanComplete ==
    pc = "loop" =>
        \A e \in Envs(PROMPT_ORDER[i]) :
            Prompter(PROMPT_ORDER[i], i + 1, new_args, Acceptable(PROMPT_ORDER[i]), e).st
                \in {"ret", "poll"}

\* C26: session termination: no input typed at an interactive prompt can
\* abort RootPrompt.prompt or discard answers already collected - every
\* invalid entry is caught inside its own prompt loop, reported, and asked
\* again - and if the user eventually enters an acceptable value at every
\* prompt (and the billing step completes) the session reaches its terminal
\* state and returns the mapping.
C26_SessionTermination ==
    /\ ~AbortedAtPrompt
    /\ TypedErrorsRetried
    /\ pc \in {"loop", "billing_poll", "done"} =>
          \A k \in DOMAIN before : k \in DOMAIN new_args
    /\ "project_creation_mode" \notin DOMAIN args => CanComplete
    /\ pc = "done" => finished = <<"credentials">> \o PROMPT_ORDER

\* C26 without the claim that no typed line ends the session: rejected
\* entries are asked again, no collected answer is dropped, every step can
\* be completed, and a session that is aborted at a prompt is aborted at the
\* billing menu
C26_RetriedAndProceeds ==
    /\ TypedErrorsRetried
    /\ pc \in {"loop", "billing_poll", "done"} =>
          \A k \in DOMAIN before : k \in DOMAIN new_args
    /\ "project_creation_mode" \notin DOMAIN args => CanComplete
    /\ pc = "done" => finished = <<"credentials">> \o PROMPT_ORDER
    /\ AbortedAtPrompt =>
          /\ last = "billing_account_name"
          /\ io[Len(io)].op = "ask"
          /\ io[Len(io)].msg = "You have the following existing billing accounts"

-----------------------------------------------------------------------------
(* Properties of the end of the update entry point (SpecUpdate) *)

\* the calls of update_project so far
Workflows == SelectSeq(io, LAMBDA ev : ev.op = "update_project")

\* the three parameters of the update are resolved
AllResolved ==
    DOMAIN update.actual_parameters =
        {"credentials", "database_password", "django_directory_path"}

\* C27: in the update entry point the update workflow (update_project) is
\* invoked at most once, and only after all three parameters are resolved,
\* the project's configuration yields a backend, and the tool-requirements
\* check succeeded; a missing backend raises InvalidConfigError and a failed
\* requirements check returns, in both cases without invoking the workflow.
C27_WorkflowGuarded ==
    /\ Len(Workflows) <= 1
    /\ pc # "done" => Workflows = <<>>
    /\ pc \in {"workflow", "done"} =>
          /\ AllResolved
          /\ Truthy(update.backend)
          /\ update.requirements = PyTrue
    /\ pc = "done" =>
          /\ Len(Workflows) = 1
          /\ io[Len(io)] =
                [op |-> "update_project",
                 msg |-> update.actual_parameters["credentials"],
                 val |-> <<update.actual_parameters["django_directory_path"],
                           update.actual_parameters["database_password"]>>]
    /\ pc = "raised" =>
          /\ update.status = "InvalidConfigError"
          /\ ~Truthy(update.backend)
          /\ update.requirements = None
    /\ pc = "returned" =>
          /\ update.status = "returned"
          /\ Truthy(update.backend)
          /\ update.requirements = PyFalse
    /\ pc \in {"raised", "returned"} => AllResolved

\* the workflow was invoked after all three parameters were prompted for
C27_Witness ==
    /\ pc = "done"
    /\ args = <<>>
    /\ Len(Workflows) = 1
    /\ Len(PromptCalls) = 3

-----------------------------------------------------------------------------
(* Password confidentiality (Spec) *)

PasswordKeys == {"database_password", "django_superuser_password"}

\* the string s occurs in the value v formatted into a message
Contains(v, s) ==
    \E n \in 0..(Len(v) - Len(s)) : SubSeq(v, n + 1, n + Len(s)) = s

\* the passwords of the session: pre-supplied or collected
Passwords ==
    {Get(a, k) : a \in {args, new_args}, k \in PasswordKeys} \ {None}

\* what console.tell and console.error have shown in the last step
Shown == EventsOf(io, {"tell", "error"})

\* C28: password confidentiality on the console: no console.tell or
\* console.error output produced during a session contains the value of
\* database_password or django_superuser_password, whether the password was
\* typed at the masked prompt or pre-supplied; two sessions that differ only
\* in the password value produce identical console output.
C28_PasswordNotShown ==
    \A j \in 1..Len(Shown) : \A s \in Passwords : ~Contains(Shown[j].val, s)

\* C28 for the passwords typed at the masked prompt: nothing shown holds a
\* password unless it is the confirmation line of a pre-supplied password
\* that passed validation
C28_TypedPasswordNotShown ==
    \A j \in 1..Len(Shown) : \A s \in Passwords :
        Contains(Shown[j].val, s) =>
            /\ Shown[j].op = "tell"
            /\ Shown[j].msg \in PasswordKeys
            /\ Shown[j].msg = last
            /\ Get(args, last) = s
            /\ _password_validate(s) = "ok"
            /\ EventsOf(io, {"getpass"}) = <<>>

-----------------------------------------------------------------------------
(* The order of the steps and the keys they read (Spec) *)

\* the key the step of key k reads with args[...] or asserts to be present
Needs(k) ==
    CASE k \in {"project_name", "billing_account_name"} -> {"project_id"}
      [] k = "django_superuser_password" -> {"django_superuser_login"}
      [] OTHER -> {}

\* C29: dependency order: whenever a step of RootPrompt.prompt reads a key it
\* cannot do without (project_id in the existing-project branches of the
\* project_name and billing steps, django_superuser_login in the
\* superuser-password step), that key is already present in the mapping
\* because its own step comes earlier in PROMPT_ORDER; no step fails on a
\* missing key, from any initial mapping.
C29_DependencyOrder ==
    /\ pc = "loop" =>
          /\ Needs(PROMPT_ORDER[i]) \subseteq DOMAIN new_args
          /\ \A k \in Needs(PROMPT_ORDER[i]) :
                \E j \in 1..(i - 1) : PROMPT_ORDER[j] = k
    /\ (pc \in {"loop", "billing_poll", "done", "raised"} /\ last \in Keys) =>
          /\ Needs(last) \subseteq DOMAIN before
          /\ \A k \in Needs(last) : before[k] # None
    /\ pc = "raised" => last \notin {"django_superuser_password"}

\* the name of an existing project was looked up with the project id typed
\* at the step before
C29_Witness ==
    /\ pc = "loop"
    /\ last = "project_name"
    /\ "project_id" \notin DOMAIN args
    /\ Get(before, "project_creation_mode") = MUST_EXIST
    /\ before["project_id"] = P_shop01
    /\ new_args["project_name"] = N_Shop

====
